---- MODULE Spec2Model ----
(***************************************************************************)
(* State-machine model of the bond trading system:                         *)
(*   inquiry service + connector + auto-quoting listener,                  *)
(*   market data -> algo execution -> execution -> trade booking ->        *)
(*   position -> risk (+ historical capture), and the GUI throttle gate.   *)
(* Prices are integers in 256ths of a point (the grid of the price codec); *)
(* PV01 values are integers in hundredths (0.01 .. 0.07).                  *)
(***************************************************************************)
EXTENDS Integers, Sequences, FiniteSets, TLC

VARIABLES
  inquiries_,   \* BondInquiryService::inquiries_  (inquiry id -> Inquiry)
  inqHist_,     \* HistoricalDataService<Inquiry>::historicalData_
  inqTrace,     \* calls made while handling the latest inbound inquiry event
  books_,       \* BondMarketDataService::books_  (product id -> OrderBook)
  algo_execs_,  \* BondAlgoExecutionService::algo_execs_
  algo_counter_,    \* BondAlgoExecutionService::counter_
  orders_,      \* BondExecutionService::orders_
  exec_counter_,    \* BondExecutionListener::counter_
  trades_,      \* BondTradeBookingService::trades_  (trade id -> Trade)
  booking_counter_, \* BondTradeBookingListener::counter_
  positions_,   \* BondPositionService::positions_  (product id -> book -> quantity)
  pv_,          \* BondRiskService::pv_  (product id -> PV01)
  pv_buckets_,  \* BondRiskService::pv_buckets_  (sector name -> PV01 of the sector)
  chainTrace,   \* calls made while handling the latest market-data / trade event
  ledger,       \* per instrument and book: BUY minus SELL quantity of the trades applied
  nEvents,      \* number of feed events handled so far
  aggLog,       \* the latest direct call made on a service, its argument and result
  received,     \* number of callbacks the execution and trade-booking listeners have had
  sentOrders,   \* product and order id of every order SendOrder has emitted, in order
  conn,         \* the Subscribe loop of a feed connector: its locals and the rows of its file
  gui_counter_, \* BondGUIListener::counter_
  gui_elapsed,  \* system_clock::now() - BondGUIListener::start_, in ms, saturating at the throttle
  gui_prices_,  \* BondGUIService::prices_
  guiPublished, \* number of prices handed to BondGUIConnector::Publish so far
  guiSinceEmit, \* ms since the latest emission, saturating at the throttle (-1: none yet)
  guiLastGap,   \* guiSinceEmit as it was when the latest emission happened
  guiLastCall,  \* what the gate did with the latest price: "emitted" or "dropped"
  guiLastData,  \* the price the latest call of the gate was made with
  guiLastOut,   \* the price handed to BondGUIConnector::Publish most recently
  guiCallBit,   \* flips at every call of BondGUIListener::ProcessAdd
  guiUptime,    \* ms since BondGUIListener was constructed, saturating at the throttle
  codec,        \* the latest call of the price codec: its argument and its result
  prices_,      \* BondPricingService::prices_  (product id -> Price)
  algo_streams_,    \* BondAlgoStreamingService::algo_streams_
  stream_counter_,  \* BondAlgoStreamingService::counter_
  streams_,     \* BondStreamingService::streams_
  streamHist_,  \* HistoricalDataService<PriceStream>::historicalData_
  priceTrace,   \* calls made while handling the latest price event
  nPrices,      \* number of price events handled so far
  cbTrace       \* listener dispatch of the latest event: begin/call/ret/end marks

inqVars == <<inquiries_, inqHist_, inqTrace>>

chainVars == <<books_, algo_execs_, algo_counter_, orders_, exec_counter_, trades_,
               booking_counter_, positions_, pv_, pv_buckets_, chainTrace, ledger, nEvents,
               aggLog, received, sentOrders, conn>>

guiVars == <<gui_counter_, gui_elapsed, gui_prices_, guiPublished, guiSinceEmit,
             guiLastGap, guiLastCall, guiLastData, guiLastOut, guiCallBit, guiUptime>>

codecVars == <<codec>>

streamVars == <<prices_, algo_streams_, stream_counter_, streams_, streamHist_,
                priceTrace, nPrices>>

cbVars == <<cbTrace>>

vars == <<inqVars, chainVars, guiVars, codecVars, streamVars, cbVars>>

----------------------------------------------------------------------------
(* Generic helpers *)

\* std::unordered_map::operator[] assignment: insert or replace
Put(m, k, v) == [x \in (DOMAIN m) \cup {k} |-> IF x = k THEN v ELSE m[x]]

EmptyMap == [x \in {} |-> 0]

\* one 32nd = 8/256, the codec grid is 1/256
Ticks == 256

----------------------------------------------------------------------------
(* Inquiry service *)

InquiryStates == {"RECEIVED", "QUOTED", "DONE", "REJECTED", "CUSTOMER_REJECTED"}

\* the quote sent back by the listener: 100.
QuotePrice == 100 * Ticks

InquiryIds == {"INQ1", "INQ2"}

\* prices carried by inbound inquiries and by direct SendQuote calls
InquiryPrices == {99 * Ticks, 100 * Ticks}

\* instrument the inbound inquiries are about
InquiryProducts == {"91282CJL6"}

\* listeners of the inquiry service in registration order
InquiryListeners == <<"BondInquiryListener", "HistoricalDataListener">>

\* a reference to an Inquiry: a caller's local object or the stored map entry
LocalRef(v) == [k |-> "local", v |-> v, id |-> v.id]
StoredRef(id) == [k |-> "stored", id |-> id]

Deref(st, ref) == IF ref.k = "local" THEN ref.v ELSE st.inq[ref.id]

\* a mark in the dispatch log: a listener loop begins or ends, a callback of
\* listener l is called or has returned
Mark(st, k, svc, l, ev) ==
  [st EXCEPT !.cb = Append(@, [k |-> k, svc |-> svc, l |-> l, ev |-> ev])]

Log(st, op, inq) ==
  [st EXCEPT !.tr = Append(@, [op |-> op, id |-> inq.id, product |-> inq.product,
                                   state |-> inq.state, price |-> inq.price])]

\* HistoricalDataListener::ProcessAdd -> PersistData -> connector Publish
HistoricalDataListener_ProcessAdd(st, ref) ==
  LET d == Deref(st, ref) IN
  Log([st EXCEPT !.hist = Put(@, d.product, d)], "Persist", d)

RECURSIVE BondInquiryService_OnMessage(_, _)
RECURSIVE BondInquiryService_Notify(_, _, _)
RECURSIVE BondInquiryConnector_Publish(_, _)
RECURSIVE BondInquiryService_SendQuote(_, _, _)
RECURSIVE BondInquiryListener_ProcessUpdate(_, _)

\* the connector's Publish variant that forgets the DONE re-ingestion
BondInquiryConnector_Publish_NoDone(st, id) ==
  IF st.inq[id].state = "RECEIVED"
  THEN LET s1 == [st EXCEPT !.inq[id].state = "QUOTED"] IN
       BondInquiryService_OnMessage(Log(s1, "Publish", s1.inq[id]), StoredRef(id))
  ELSE Log(st, "Publish", st.inq[id])

\* the connector's Publish variant that re-ingests the inquiry only once, as DONE
BondInquiryConnector_Publish_DoneOnly(st, id) ==
  IF st.inq[id].state = "RECEIVED"
  THEN LET s1 == [st EXCEPT !.inq[id].state = "DONE"] IN
       BondInquiryService_OnMessage(Log(s1, "Publish", s1.inq[id]), StoredRef(id))
  ELSE Log(st, "Publish", st.inq[id])

\* the connector's Publish variant that re-ingests the DONE inquiry once more
BondInquiryConnector_Publish_Thrice(st, id) ==
  IF st.inq[id].state = "RECEIVED"
  THEN LET s1 == [st EXCEPT !.inq[id].state = "QUOTED"]
           s2 == BondInquiryService_OnMessage(Log(s1, "Publish", s1.inq[id]), StoredRef(id))
           s3 == [s2 EXCEPT !.inq[id].state = "DONE"]
           s4 == BondInquiryService_OnMessage(s3, StoredRef(id))
       IN  BondInquiryService_OnMessage(s4, StoredRef(id))
  ELSE Log(st, "Publish", st.inq[id])

\* BondInquiryConnector::Publish(data), data being the stored inquiry
BondInquiryConnector_Publish(st, id) ==
  IF st.inq[id].state = "RECEIVED"
  THEN LET s1 == [st EXCEPT !.inq[id].state = "QUOTED"]
           s2 == BondInquiryService_OnMessage(Log(s1, "Publish", s1.inq[id]), StoredRef(id))
           s3 == [s2 EXCEPT !.inq[id].state = "DONE"]
       IN  BondInquiryService_OnMessage(s3, StoredRef(id))
  ELSE Log(st, "Publish", st.inq[id])

\* BondInquiryService::SendQuote(inquiryId, price)
BondInquiryService_SendQuote(st, id, price) ==
  LET s1 == [st EXCEPT !.inq[id].price = price] IN
  BondInquiryConnector_Publish(Log(s1, "SendQuote", s1.inq[id]), id)

\* a RejectInquiry variant that hands the rejected inquiry back to the service
BondInquiryService_RejectInquiry_Reingest(st, id) ==
  LET s1 == [st EXCEPT !.inq[id].state = "REJECTED"] IN
  BondInquiryService_OnMessage(Log(s1, "RejectInquiry", s1.inq[id]), StoredRef(id))

\* BondInquiryService::RejectInquiry(inquiryId)
BondInquiryService_RejectInquiry(st, id) ==
  LET s1 == [st EXCEPT !.inq[id].state = "REJECTED"] IN
  BondInquiryConnector_Publish(Log(s1, "RejectInquiry", s1.inq[id]), id)

\* BondInquiryListener::ProcessUpdate(data)
BondInquiryListener_ProcessUpdate(st, ref) ==
  IF Deref(st, ref).state = "RECEIVED"
  THEN BondInquiryService_SendQuote(st, ref.id, QuotePrice)
  ELSE st

\* the listener loop of OnMessage: ProcessAdd then ProcessUpdate on each listener
BondInquiryService_Notify(st, ref, i) ==
  IF i > Len(InquiryListeners) THEN Mark(st, "end", "Inquiry", "", "")
  ELSE LET l == InquiryListeners[i]
           s0 == IF i = 1 THEN Mark(st, "begin", "Inquiry", "", "") ELSE st
           a0 == Mark(s0, "call", "Inquiry", l, "Add")
           a1 == IF l = "HistoricalDataListener"
                 THEN HistoricalDataListener_ProcessAdd(a0, ref) ELSE a0
           u0 == Mark(Mark(a1, "ret", "Inquiry", l, "Add"), "call", "Inquiry", l, "Update")
           u1 == IF l = "BondInquiryListener"
                 THEN BondInquiryListener_ProcessUpdate(u0, ref) ELSE u0
       IN  BondInquiryService_Notify(Mark(u1, "ret", "Inquiry", l, "Update"), ref, i + 1)

\* BondInquiryService::OnMessage(data)
BondInquiryService_OnMessage(st, ref) ==
  LET d  == Deref(st, ref)
      s1 == Log([st EXCEPT !.inq = Put(@, d.id, d)], "OnMessage", d)
  IN  BondInquiryService_Notify(s1, ref, 1)

InqSt == [inq |-> inquiries_, hist |-> inqHist_, tr |-> <<>>, cb |-> <<>>]

InqApply(r) ==
  /\ inquiries_' = r.inq
  /\ inqHist_' = r.hist
  /\ inqTrace' = r.tr
  /\ cbTrace' = r.cb

\* BondInquiryConnector::Subscribe: one feed row handed to the service
InquiryIngest ==
  \E id \in InquiryIds, b \in InquiryProducts, p \in InquiryPrices, s \in InquiryStates :
    /\ InqApply(BondInquiryService_OnMessage(InqSt,
                  LocalRef([id |-> id, product |-> b, price |-> p, state |-> s])))
    /\ UNCHANGED <<chainVars, guiVars, codecVars, streamVars>>

SendQuote ==
  \E id \in DOMAIN inquiries_, p \in InquiryPrices :
    /\ InqApply(BondInquiryService_SendQuote(InqSt, id, p))
    /\ UNCHANGED <<chainVars, guiVars, codecVars, streamVars>>

RejectInquiry ==
  \E id \in DOMAIN inquiries_ :
    /\ InqApply(BondInquiryService_RejectInquiry(InqSt, id))
    /\ UNCHANGED <<chainVars, guiVars, codecVars, streamVars>>

InitInquiry ==
  /\ inquiries_ = EmptyMap
  /\ inqHist_ = EmptyMap
  /\ inqTrace = <<>>

NextInquiry == InquiryIngest \/ SendQuote \/ RejectInquiry

(* Claims about the inquiry service *)

\* the latest event was the ingestion of a feed row in state RECEIVED
RowReceived ==
  /\ Len(inqTrace) > 0
  /\ inqTrace[1].op = "OnMessage"
  /\ inqTrace[1].state = "RECEIVED"

TraceIdx(op, state) ==
  {i \in 2..Len(inqTrace) : inqTrace[i].op = op /\ (state = "any" \/ inqTrace[i].state = state)}

\* C1: an inquiry ingested in state RECEIVED gets exactly one quote, at the
\* reference price 100, and is afterwards re-ingested exactly twice by the
\* connector, first in state QUOTED and then in state DONE.
C1_OneQuoteThenQuotedDone ==
  RowReceived =>
    LET q == TraceIdx("SendQuote", "any")
        m == TraceIdx("OnMessage", "any")
        mq == TraceIdx("OnMessage", "QUOTED")
        md == TraceIdx("OnMessage", "DONE")
    IN  /\ Cardinality(q) = 1
        /\ \A i \in q : inqTrace[i].price = QuotePrice /\ inqTrace[i].id = inqTrace[1].id
        /\ Cardinality(m) = 2 /\ Cardinality(mq) = 1 /\ Cardinality(md) = 1
        /\ \A i \in q, j \in mq, k \in md : i < j /\ j < k
        /\ \A i \in m : inqTrace[i].id = inqTrace[1].id /\ inqTrace[i].price = QuotePrice
        /\ inquiries_[inqTrace[1].id].state = "DONE"

\* a RECEIVED row whose inbound price differs from the quote has been processed
C1_Witness ==
  /\ RowReceived
  /\ inqTrace[1].price # QuotePrice
  /\ Cardinality(TraceIdx("OnMessage", "DONE")) = 1

\* state changes the protocol allows for a stored inquiry within one event
ForwardMoves ==
  {<<"RECEIVED", "QUOTED">>, <<"QUOTED", "DONE">>, <<"RECEIVED", "DONE">>,
   <<"RECEIVED", "REJECTED">>}

\* C2: the state stored for an inquiry id only moves RECEIVED->QUOTED,
\* QUOTED->DONE or RECEIVED->REJECTED, never backward and never out of DONE
\* or REJECTED, whatever public operations are called.
C2_OnlyForwardMoves ==
  [][\A id \in DOMAIN inquiries_ :
       \/ inquiries_'[id].state = inquiries_[id].state
       \/ <<inquiries_[id].state, inquiries_'[id].state>> \in ForwardMoves]_vars


\* operations recorded in a trace of the inquiry service
InqOps(tr) == [i \in 1..Len(tr) |-> tr[i].op]

\* C31: RejectInquiry(id) sets the stored inquiry's state to REJECTED and hands
\* it to the connector, which does not re-ingest it: no listener callback
\* fires; a SendQuote(id, price) on an inquiry stored as REJECTED sets the price,
\* triggers no re-ingestion either and leaves the state REJECTED.
C31_RejectedStaysRejected ==
  [][(/\ Len(inqTrace') > 0
      /\ inqTrace'[1].op \in {"RejectInquiry", "SendQuote"}
      /\ inqTrace'[1].op = "SendQuote" => inquiries_[inqTrace'[1].id].state = "REJECTED")
     => LET id == inqTrace'[1].id IN
        /\ InqOps(inqTrace') = <<inqTrace'[1].op, "Publish">>
        /\ inqTrace'[2].id = id /\ inqTrace'[2].state = "REJECTED"
        /\ cbTrace' = <<>>
        /\ inquiries_'[id].state = "REJECTED"
        /\ inquiries_'[id].price = inqTrace'[1].price
        /\ inquiries_'[id].product = inquiries_[id].product
        /\ DOMAIN inquiries_' = DOMAIN inquiries_
        /\ \A o \in DOMAIN inquiries_ \ {id} : inquiries_'[o] = inquiries_[o]
        /\ inqHist_' = inqHist_]_vars

\* an inquiry that was auto-quoted to DONE and then rejected has been sent a
\* quote at a new price: it is still REJECTED
C31_Witness ==
  /\ Len(inqTrace) > 0
  /\ inqTrace[1].op = "SendQuote"
  /\ inqTrace[1].state = "REJECTED"
  /\ inqTrace[1].price = 99 * Ticks
  /\ inquiries_[inqTrace[1].id].state = "REJECTED"
  /\ inquiries_[inqTrace[1].id].price = 99 * Ticks
  /\ inqTrace[1].product \in DOMAIN inqHist_
  /\ inqHist_[inqTrace[1].product].state = "DONE"

\* inquiry states of the records the capture sink was handed, in order
RECURSIVE PersistedStates(_, _)
PersistedStates(tr, i) ==
  IF i > Len(tr) THEN <<>>
  ELSE IF tr[i].op = "Persist"
       THEN <<tr[i].state>> \o PersistedStates(tr, i + 1)
       ELSE PersistedStates(tr, i + 1)

\* C32: with the auto-quoting listener registered first and the capture
\* listener second, the capture sink receives, for an inquiry arriving in state
\* RECEIVED, exactly three add events whose states are RECEIVED, QUOTED, DONE
\* in that order.
C32_CaptureProtocolOrder ==
  RowReceived => PersistedStates(inqTrace, 1) = <<"RECEIVED", "QUOTED", "DONE">>

----------------------------------------------------------------------------
(* Reference data (utils.hpp) *)

Cusips == {"91282CJL6", "91282CJK8", "91282CJN2", "91282CJM4", "91282CJJ1",
           "912810TW8", "912810TV0"}

\* MakeBond: the ticker of the bond built for a cusip ("" for the default bond)
Ticker(cusip) ==
  CASE cusip = "91282CJL6" -> "US2Y"
    [] cusip = "91282CJK8" -> "US3Y"
    [] cusip = "91282CJN2" -> "US5Y"
    [] cusip = "91282CJM4" -> "US7Y"
    [] cusip = "91282CJJ1" -> "US10Y"
    [] cusip = "912810TW8" -> "US20Y"
    [] cusip = "912810TV0" -> "US30Y"
    [] OTHER -> ""

\* MakeBond: the product id of the bond built for a cusip
MakeBond(cusip) == IF cusip \in Cusips THEN cusip ELSE ""

\* PV_Map, in hundredths
PV_Map ==
  [c \in Cusips |->
     CASE c = "91282CJL6" -> 1 [] c = "91282CJK8" -> 2 [] c = "91282CJN2" -> 3
       [] c = "91282CJM4" -> 4 [] c = "91282CJJ1" -> 5 [] c = "912810TW8" -> 6
       [] OTHER -> 7]

Sectors == {"FrontEnd", "Belly", "LongEnd"}

\* BucketMap: sector name -> vector of cusips
BucketMap ==
  [s \in Sectors |->
     CASE s = "FrontEnd" -> <<"91282CJL6", "91282CJK8">>
       [] s = "Belly" -> <<"91282CJN2", "91282CJM4", "91282CJJ1">>
       [] OTHER -> <<"912810TW8", "912810TV0">>]

SeqRange(q) == {q[i] : i \in 1..Len(q)}

\* C++ integer division truncates toward zero
CDiv(a, b) == IF a >= 0 THEN a \div b ELSE -((-a) \div b)

RECURSIVE GCD(_, _)
GCD(a, b) == IF b = 0 THEN a ELSE GCD(b, a % b)

Abs(a) == IF a < 0 THEN -a ELSE a

\* the real number n/d (d # 0) as a reduced fraction with positive denominator
Frac(n, d) ==
  LET g == GCD(Abs(n), Abs(d))
      sg == IF d < 0 THEN -1 ELSE 1
  IN  <<sg * (n \div g), sg * (d \div g)>>

Zero == <<0, 1>>

----------------------------------------------------------------------------
(* Price codec (utils.hpp). A price is an integer number of 256ths, a string *)
(* is a sequence of one-character strings.                                   *)

DigitChars == <<"0", "1", "2", "3", "4", "5", "6", "7", "8", "9">>

IsDigit(c) == \E d \in 1..10 : DigitChars[d] = c

DigitOf(c) == (CHOOSE d \in 1..10 : DigitChars[d] = c) - 1

\* std::to_string(int)
RECURSIVE to_string(_)
to_string(n) ==
  IF n < 0 THEN <<"-">> \o to_string(0 - n)
  ELSE IF n < 10 THEN <<DigitChars[n + 1]>>
  ELSE to_string(n \div 10) \o <<DigitChars[(n % 10) + 1]>>

\* the value of a sequence of digits
RECURSIVE DigitsValue(_)
DigitsValue(q) ==
  IF q = <<>> THEN 0 ELSE 10 * DigitsValue(SubSeq(q, 1, Len(q) - 1)) + DigitOf(q[Len(q)])

\* the longest prefix of digits of a string
RECURSIVE DigitPrefix(_)
DigitPrefix(q) ==
  IF q = <<>> \/ ~IsDigit(q[1]) THEN <<>> ELSE <<q[1]>> \o DigitPrefix(Tail(q))

\* a call that may throw yields the set of its results: {v}, or {} when it throws
Value(r) == CHOOSE v \in r : TRUE

\* std::stod on a string of digits, '+' and '-': the number its longest numeric
\* prefix denotes; throws std::invalid_argument when there is none
stod(str) ==
  LET body == IF str # <<>> /\ str[1] \in {"+", "-"} THEN Tail(str) ELSE str
      digits == DigitPrefix(body)
  IN  IF digits = <<>> THEN {}
      ELSE IF str[1] = "-" THEN {0 - DigitsValue(digits)} ELSE {DigitsValue(digits)}

\* std::string::substr(pos, count); throws std::out_of_range when pos > size
substr(str, pos, count) ==
  IF pos > Len(str) THEN {}
  ELSE {SubSeq(str, pos + 1, IF pos + count > Len(str) THEN Len(str) ELSE pos + count)}

\* boost::algorithm::split(tokens, s, is_any_of("-"))
RECURSIVE split(_, _)
split(str, cur) ==
  IF str = <<>> THEN <<cur>>
  ELSE IF str[1] = "-" THEN <<cur>> \o split(Tail(str), <<>>)
  ELSE split(Tail(str), Append(cur, str[1]))

\* StringToPrice(s_price), in 256ths: {price}, or {} when the function throws
\* (a string without '-' makes tokens[1] an access past the end of the vector)
StringToPrice(s_price) ==
  LET tokens == split(s_price, <<>>)
  IN  IF Len(tokens) < 2 THEN {}
      ELSE LET integer_str == tokens[1]
               thirtysec == substr(tokens[2], 0, 2)
               eighth0 == substr(tokens[2], 2, 3)
           IN  IF thirtysec = {} \/ eighth0 = {} THEN {}
               ELSE LET eighth == IF Value(eighth0) = <<"+">> THEN <<"4">> ELSE Value(eighth0)
                        integer_d == stod(integer_str)
                        decimal32 == stod(Value(thirtysec))
                        decimal8 == stod(eighth)
                    IN  IF integer_d = {} \/ decimal32 = {} \/ decimal8 = {} THEN {}
                        ELSE {Value(integer_d) * Ticks + Value(decimal32) * (Ticks \div 32)
                                + Value(decimal8)}

\* PriceToString without the "0" in front of a one-digit 32nds part
PriceToString_NoPad(d_price) ==
  LET int_price == d_price \div Ticks
      remainder == d_price - int_price * Ticks
      thirtysec == (remainder * 32) \div Ticks
      eighth == CDiv((remainder * 32 - thirtysec * Ticks) * 8, Ticks)
  IN  to_string(int_price) \o <<"-">> \o to_string(thirtysec)
        \o (IF eighth = 4 THEN <<"+">> ELSE to_string(eighth))

\* PriceToString without the '+' for four eighths
PriceToString_NoPlus(d_price) ==
  LET int_price == d_price \div Ticks
      remainder == d_price - int_price * Ticks
      thirtysec == (remainder * 32) \div Ticks
      eighth == CDiv((remainder * 32 - thirtysec * Ticks) * 8, Ticks)
  IN  to_string(int_price) \o <<"-">> \o (IF thirtysec < 10 THEN <<"0">> ELSE <<>>)
        \o to_string(thirtysec) \o to_string(eighth)

\* PriceToString(d_price) for a price on the 1/256 grid, where every step of
\* the double arithmetic is exact: floor, remainder, remainder / (1/32), its
\* floor, and the truncated (thirtysec_delta - thirtysec) / (1/8)
PriceToString(d_price) ==
  LET int_price == d_price \div Ticks
      remainder == d_price - int_price * Ticks
      thirtysec == (remainder * 32) \div Ticks
      eighth == CDiv((remainder * 32 - thirtysec * Ticks) * 8, Ticks)
  IN  to_string(int_price) \o <<"-">> \o (IF thirtysec < 10 THEN <<"0">> ELSE <<>>)
        \o to_string(thirtysec)
        \o (IF eighth = 4 THEN <<"+">> ELSE to_string(eighth))

\* whole parts of the prices encoded: one, two and three digits
CodecWholes == {0, 9, 99, 100, 101}

\* the non-negative grid prices encoded
CodecPrices == {w * Ticks + f : w \in CodecWholes, f \in 0..(Ticks - 1)}

\* strings as the feeds carry them: "99-16+", "100-001", "100-25", "100-2", "100"
FeedStrings ==
  {<<"9", "9", "-", "1", "6", "+">>, <<"1", "0", "0", "-", "0", "0", "1">>,
   <<"1", "0", "0", "-", "2", "5">>, <<"1", "0", "0", "-", "2">>, <<"1", "0", "0">>}

\* a call of PriceToString
Encode ==
  /\ \E p \in CodecPrices :
       codec' = [op |-> "PriceToString", price |-> p, str |-> PriceToString(p), back |-> {}]
  /\ UNCHANGED <<inqVars, chainVars, guiVars, streamVars, cbVars>>

\* StringToPrice called with the string PriceToString has just produced
DecodeEncoded ==
  /\ codec.op = "PriceToString"
  /\ codec' = [codec EXCEPT !.op = "RoundTrip", !.back = StringToPrice(codec.str)]
  /\ UNCHANGED <<inqVars, chainVars, guiVars, streamVars, cbVars>>

\* StringToPrice called with a string of a feed
DecodeFeed ==
  /\ \E s \in FeedStrings :
       codec' = [op |-> "StringToPrice", price |-> 0 - 1, str |-> s, back |-> StringToPrice(s)]
  /\ UNCHANGED <<inqVars, chainVars, guiVars, streamVars, cbVars>>

InitCodec == codec = [op |-> "none", price |-> 0 - 1, str |-> <<>>, back |-> {}]

NextCodec == Encode \/ DecodeEncoded \/ DecodeFeed

(* Claims about the price codec *)

LastChar(str) == str[Len(str)]

\* C15: for every non-negative price p on the 1/256 grid
\* StringToPrice(PriceToString(p)) = p, and a price whose remainder past the
\* whole 32nds is 4/256 is encoded with '+' as last character, which decodes
\* back to 4/256.
C15_RoundTrip ==
  codec.op = "RoundTrip" =>
     /\ codec.back = {codec.price}
     /\ (codec.price % 8 = 4 =>
           (LastChar(codec.str) = "+" /\ \A v \in codec.back : v % 8 = 4))

\* 100 + 5/32 + 4/256 went through "100-05+" and came back
C15_Witness ==
  /\ codec.op = "RoundTrip"
  /\ codec.price = 100 * Ticks + 5 * 8 + 4
  /\ codec.str = <<"1", "0", "0", "-", "0", "5", "+">>
  /\ codec.back = {codec.price}

\* C16 as stated: a price whose fractional part is exactly 1/128 is encoded
\* with '+' as its eighths character.
C16_PlusFor128th ==
  (codec.op = "PriceToString" /\ 128 * (codec.price % Ticks) = Ticks)
     => LastChar(codec.str) = "+"

\* C16 amended: '+' stands for 4/256 = 1/64; a fractional part of exactly
\* 1/64 is encoded with '+' and one of exactly 1/128 with the digit 2.
C16_PlusFor64th ==
  codec.op = "PriceToString" =>
     /\ (64 * (codec.price % Ticks) = Ticks => LastChar(codec.str) = "+")
     /\ (128 * (codec.price % Ticks) = Ticks => LastChar(codec.str) = "2")

\* 100 + 1/64 was encoded as "100-00+"
C16_Witness ==
  /\ codec.op = "PriceToString"
  /\ codec.price = 100 * Ticks + 4
  /\ codec.str = <<"1", "0", "0", "-", "0", "0", "+">>

----------------------------------------------------------------------------
(* GUI throttle gate *)

\* BondGUIService gui_service(300): the throttle interval in ms
Throttle == 300

\* "only need to print the first 100"
GUICap == 100

\* time that passes between two price updates, and between the hand-over of a
\* price to the connector and the restart of the throttle, in ms
Delays == {100, 150}
WriteDelays == {0, 50}

GuiPrices ==
  {[product |-> "91282CJL6", mid |-> m, spread |-> 2] : m \in {100 * Ticks, 100 * Ticks + 1}}

Min(a, b) == IF a < b THEN a ELSE b

\* the gate that lets the counter reach the cap before closing
GateOpen_CapIncluded(counter, elapsed) == counter <= GUICap /\ elapsed >= Throttle

\* the gate without the throttle test
GateOpen_NoThrottle(counter, elapsed) == counter < GUICap

\* counter_ < 100 && system_clock::now() - start_ >= throttle_
GateOpen(counter, elapsed) == counter < GUICap /\ elapsed >= Throttle

\* BondGUIService::AddPrice(price): store the price, hand it to the connector
BondGUIService_AddPrice(g, price) ==
  [g EXCEPT !.prices = Put(@, price.product, price), !.out = <<price>>]

\* a gate that keeps a dropped price in the service's store
BondGUIListener_ProcessAdd_Buffering(g, data) ==
  IF GateOpen(g.counter, g.elapsed)
  THEN [BondGUIService_AddPrice(g, data) EXCEPT !.counter = @ + 1, !.elapsed = 0]
  ELSE [g EXCEPT !.prices = Put(@, data.product, data)]

\* BondGUIListener::ProcessAdd(data)
BondGUIListener_ProcessAdd(g, data) ==
  IF GateOpen(g.counter, g.elapsed)
  THEN [BondGUIService_AddPrice(g, data) EXCEPT !.counter = @ + 1, !.elapsed = 0]
  ELSE g

----------------------------------------------------------------------------
(* Market data -> algo execution -> execution -> trade booking -> position  *)
(* -> risk, with the historical capture sinks, wired as in main.            *)

\* listeners of each service in registration order
MarketDataListeners == <<"BondAlgoExecutionListener">>
AlgoExecutionListeners == <<"BondExecutionListener">>
ExecutionListeners_CaptureFirst ==
  <<"HistoricalDataListener_Execution", "BondTradeBookingListener">>
ExecutionListeners == <<"BondTradeBookingListener", "HistoricalDataListener_Execution">>
TradeBookingListeners == <<"BondPositionListener">>
PositionListeners == <<"BondRiskListener", "HistoricalDataListener_Position">>
RiskListeners == <<"HistoricalDataListener_Risk">>
PricingListeners == <<"BondGUIListener", "BondAlgoStreamingListener">>
AlgoStreamingListeners == <<"BondStreamingListener">>
StreamingListeners == <<"HistoricalDataListener_Stream">>

\* listeners_ of a service after main's AddListener calls
Registered(svc) ==
  CASE svc = "MarketData" -> MarketDataListeners
    [] svc = "AlgoExecution" -> AlgoExecutionListeners
    [] svc = "Execution" -> ExecutionListeners
    [] svc = "TradeBooking" -> TradeBookingListeners
    [] svc = "Position" -> PositionListeners
    [] svc = "Risk" -> RiskListeners
    [] svc = "Pricing" -> PricingListeners
    [] svc = "AlgoStreaming" -> AlgoStreamingListeners
    [] svc = "Streaming" -> StreamingListeners
    [] svc = "Inquiry" -> InquiryListeners

\* BondExecutionListener::markets_ and BondTradeBookingListener::books_
Markets == <<"BROKERTEC", "ESPEED", "CME">>
TradeBooks == <<"TRSY1", "TRSY2", "TRSY3">>

\* "only aggressing when the spread is at its tightest (i.e. 1/128th)"
MinimumSpread == Ticks \div 128

\* visible to hidden ratio of 1 to 3
Divisor == 4

\* Order(price, quantity, side)
Ord(p, q, side) == [price |-> p, quantity |-> q, side |-> side]

TLog(st, op, data) == [st EXCEPT !.tr = Append(@, [op |-> op, data |-> data])]

\* the loop with a comparator that also replaces on equal prices
RECURSIVE find_best_loop_LastTie(_, _, _, _)
find_best_loop_LastTie(order_stack, side, best_order, i) ==
  IF i > Len(order_stack) THEN best_order
  ELSE LET better == IF side = "BID"
                     THEN order_stack[i].price >= best_order.price
                     ELSE order_stack[i].price <= best_order.price
       IN  find_best_loop_LastTie(order_stack, side,
                                  IF better THEN order_stack[i] ELSE best_order, i + 1)

\* find_best_order(order_stack, side), the loop from index i on
RECURSIVE find_best_loop(_, _, _, _)
find_best_loop(order_stack, side, best_order, i) ==
  IF i > Len(order_stack) THEN best_order
  ELSE LET better == IF side = "BID"
                     THEN order_stack[i].price > best_order.price
                     ELSE order_stack[i].price < best_order.price
       IN  find_best_loop(order_stack, side,
                          IF better THEN order_stack[i] ELSE best_order, i + 1)

find_best_order(order_stack, side) ==
  find_best_loop(order_stack, side, order_stack[1], 2)

\* OrderBook::GetBestBidOffer
OrderBook_GetBestBidOffer(book) ==
  [bid |-> find_best_order(book.bids, "BID"),
   offer |-> find_best_order(book.offers, "OFFER")]

\* Position::GetPosition(book) on a copy: 0 for a book without entry
Position_GetPosition(positions, book) ==
  IF book \in DOMAIN positions THEN positions[book] ELSE 0

\* Position::GetAggregatePosition
RECURSIVE SumOver(_, _)
SumOver(f, S) ==
  IF S = {} THEN 0
  ELSE LET x == CHOOSE y \in S : TRUE IN f[x] + SumOver(f, S \ {x})

Position_GetAggregatePosition(positions) == SumOver(positions, DOMAIN positions)

\* Position::AddPosition variant that overwrites the book's quantity
Position_AddPosition_Overwrite(positions, book, size) == Put(positions, book, size)

\* Position::AddPosition(book, size)
Position_AddPosition(positions, book, size) ==
  IF book \in DOMAIN positions
  THEN [positions EXCEPT ![book] = @ + size]
  ELSE Put(positions, book, size)

\* BondHistoricalRiskConnector::_findBucket
FindBucket(id) ==
  IF \E s \in Sectors : id \in SeqRange(BucketMap[s])
  THEN CHOOSE s \in Sectors : id \in SeqRange(BucketMap[s])
  ELSE "****************** ERROR ******************"

\* the default entry unordered_map::operator[] creates for a missing key
DefaultBucket == [name |-> "", products |-> <<>>, pv01 |-> Zero, quantity |-> 0]
DefaultPV(id) == [product |-> "", pv01 |-> 0, quantity |-> 0]

GetOrDefault(m, k, d) == IF k \in DOMAIN m THEN m[k] ELSE d

\* GetData of a keyed service: return map_[key], which creates the entry
\* when the key has none
GetData(m, key, default) ==
  [map |-> IF key \in DOMAIN m THEN m ELSE Put(m, key, default),
   ret |-> {GetOrDefault(m, key, default)}]

\* BondPositionService::GetData(key); a new Position has no book
BondPositionService_GetData(positions, key) == GetData(positions, key, EmptyMap)

\* BondRiskService::GetData(key)
BondRiskService_GetData(pv, key) == GetData(pv, key, DefaultPV(key))

\* GetBucketedRisk variant that creates the record of a sector without one
BondRiskService_GetBucketedRisk_Creating(bkt, sectorName) ==
  {GetOrDefault(bkt, sectorName, DefaultBucket)}

\* BondRiskService::GetBucketedRisk(sectorName) const: pv_buckets_.at(sectorName),
\* which throws std::out_of_range for a name without record (no value returned)
BondRiskService_GetBucketedRisk(bkt, sectorName) ==
  IF sectorName \in DOMAIN bkt THEN {bkt[sectorName]} ELSE {}

\* the loop of UpdateBucketedRisk over the sector's products
RECURSIVE BucketLoop(_, _, _, _, _)
BucketLoop(pv, products, i, qnt, cumulative_pv01) ==
  IF i > Len(products) THEN [qnt |-> qnt, cumulative_pv01 |-> cumulative_pv01]
  ELSE LET position == GetOrDefault(pv, products[i], DefaultPV(products[i]))
       IN  BucketLoop(pv, products, i + 1, qnt + position.quantity,
                      cumulative_pv01 + position.pv01 * position.quantity)

\* UpdateBucketedRisk variant that divides without testing the total quantity
\* (the sum of the products stands for the undefined quotient)
BondRiskService_UpdateBucketedRisk_NoZeroTest(st, sector) ==
  LET cur == GetOrDefault(st.bkt, sector, DefaultBucket)
      r == BucketLoop(st.pv, cur.products, 1, 0, 0)
      pv01 == IF r.qnt # 0 THEN Frac(r.cumulative_pv01, r.qnt) ELSE <<r.cumulative_pv01, 1>>
      s2 == [st EXCEPT !.bkt = Put(@, sector, [cur EXCEPT !.pv01 = pv01, !.quantity = r.qnt])]
  IN  TLog(s2, "UpdateBucketedRisk", sector)

\* BondRiskService::UpdateBucketedRisk(sector)
BondRiskService_UpdateBucketedRisk(st, sector) ==
  LET cur == GetOrDefault(st.bkt, sector, DefaultBucket)
      r == BucketLoop(st.pv, cur.products, 1, 0, 0)
      pv01 == IF r.qnt # 0 THEN Frac(r.cumulative_pv01, r.qnt) ELSE Zero
      s1 == [st EXCEPT !.pv = [k \in DOMAIN st.pv \cup SeqRange(cur.products) |->
                                 GetOrDefault(st.pv, k, DefaultPV(k))]]
      s2 == [s1 EXCEPT !.bkt = Put(@, sector, [cur EXCEPT !.pv01 = pv01, !.quantity = r.qnt])]
  IN  TLog(s2, "UpdateBucketedRisk", sector)

\* BondHistoricalRiskConnector::Publish variant that publishes the stored
\* bucket without recomputing it
BondHistoricalRiskConnector_Publish_NoUpdate(st, pv) ==
  LET s1 == TLog(st, "PublishRisk", pv)
      sector == FindBucket(pv.product)
      s2 == [s1 EXCEPT !.bkt = Put(@, sector, GetOrDefault(s1.bkt, sector, DefaultBucket))]
  IN  TLog(s2, "PublishBucket", [sector |-> sector, rec |-> s2.bkt[sector]])

\* BondHistoricalRiskConnector::Publish(PV01<Bond>), then Publish(PV01<BucketedSector>)
BondHistoricalRiskConnector_Publish(st, pv) ==
  LET s1 == TLog(st, "PublishRisk", pv)
      sector == FindBucket(pv.product)
      s2 == BondRiskService_UpdateBucketedRisk(s1, sector)
  IN  TLog(s2, "PublishBucket", [sector |-> sector, rec |-> s2.bkt[sector]])

\* BondHistoricalPositionConnector::Publish(data): GetPosition on the three
\* books creates a zero entry in the referenced position for a book without one
BondHistoricalPositionConnector_Publish(st, data) ==
  LET id == data.product
      cur == st.pos[id]
      read == [b \in (DOMAIN cur) \cup SeqRange(TradeBooks) |-> Position_GetPosition(cur, b)]
  IN  TLog([st EXCEPT !.pos[id] = read], "PublishPosition",
           [product |-> id, positions |-> read])

RECURSIVE Notify(_, _, _, _, _)
RECURSIVE Dispatch(_, _, _, _)

\* AddPosition variant that sets the quantity to the aggregate position
BondRiskService_AddPosition_Overwrite(st, position) ==
  LET id == position.product
      pv_obj == GetOrDefault(st.pv, id, DefaultPV(id))
      new_obj == [pv_obj EXCEPT !.quantity = Position_GetAggregatePosition(position.positions)]
      s1 == TLog([st EXCEPT !.pv = Put(@, id, new_obj)], "AddPosition", position)
  IN  Notify(s1, "Risk", 1, <<"Add">>, new_obj)

\* BondRiskService::AddPosition(position)
BondRiskService_AddPosition(st, position) ==
  LET id == position.product
      pv_obj == GetOrDefault(st.pv, id, DefaultPV(id))
      quantity == pv_obj.quantity + Position_GetAggregatePosition(position.positions)
      new_obj == [pv_obj EXCEPT !.quantity = quantity]
      s1 == TLog([st EXCEPT !.pv = Put(@, id, new_obj)], "AddPosition", position)
  IN  Notify(s1, "Risk", 1, <<"Add">>, new_obj)

\* BondPositionService::AddTrade variant that ignores the side of the trade
BondPositionService_AddTrade_Unsigned(st, trade) ==
  LET id == trade.product
      cur == GetOrDefault(st.pos, id, EmptyMap)
      new == Position_AddPosition(cur, trade.book, trade.quantity)
      s1 == TLog([st EXCEPT !.pos = Put(@, id, new)], "AddTrade", trade)
  IN  Notify(s1, "Position", 1, <<"Update", "Add">>,
             [product |-> id, positions |-> new])

\* AddTrade variant that tells the listeners before it updates the position
BondPositionService_AddTrade_NotifyFirst(st, trade) ==
  LET id == trade.product
      cur == GetOrDefault(st.pos, id, EmptyMap)
      quantity == IF trade.side = "SELL" THEN trade.quantity * (-1) ELSE trade.quantity
      s1 == TLog([st EXCEPT !.pos = Put(@, id, cur)], "AddTrade", trade)
      s2 == Notify(s1, "Position", 1, <<"Update", "Add">>, [product |-> id, positions |-> cur])
  IN  [s2 EXCEPT !.pos[id] = Position_AddPosition(@, trade.book, quantity)]

\* BondPositionService::AddTrade(trade)
BondPositionService_AddTrade(st, trade) ==
  LET id == trade.product
      cur == GetOrDefault(st.pos, id, EmptyMap)
      quantity == IF trade.side = "SELL" THEN trade.quantity * (-1) ELSE trade.quantity
      new == Position_AddPosition(cur, trade.book, quantity)
      s1 == TLog([st EXCEPT !.pos = Put(@, id, new)], "AddTrade", trade)
  IN  Notify(s1, "Position", 1, <<"Update", "Add">>,
             [product |-> id, positions |-> new])

\* BookTrade storing the trade without telling the listeners
BondTradeBookingService_BookTrade_NoNotify(st, trade) ==
  TLog([st EXCEPT !.trades = Put(@, trade.tradeId, trade)], "BookTrade", trade)

\* BondTradeBookingService::BookTrade(trade)
BondTradeBookingService_BookTrade(st, trade) ==
  LET s1 == TLog([st EXCEPT !.trades = Put(@, trade.tradeId, trade)], "BookTrade", trade)
  IN  Notify(s1, "TradeBooking", 1, <<"Update">>, trade)

\* ProcessAdd variant that books the trade on the side of the execution
BondTradeBookingListener_ProcessAdd_SameSide(st, data) ==
  LET bond == MakeBond(data.product)
      trade_obj == [product |-> bond, tradeId |-> <<Ticker(bond), st.bcnt>>,
                    price |-> data.price, book |-> TradeBooks[st.bcnt + 1],
                    quantity |-> data.hidden + data.visible,
                    side |-> IF data.side = "OFFER" THEN "SELL" ELSE "BUY"]
  IN  BondTradeBookingService_BookTrade([st EXCEPT !.bcnt = (@ + 1) % 3], trade_obj)

\* ProcessAdd variant that picks the book with the counter of the venues
BondTradeBookingListener_ProcessAdd_VenueCounter(st, data) ==
  LET bond == MakeBond(data.product)
      trade_obj == [product |-> bond, tradeId |-> <<Ticker(bond), st.bcnt>>,
                    price |-> data.price, book |-> TradeBooks[st.mcnt + 1],
                    quantity |-> data.hidden + data.visible,
                    side |-> IF data.side = "OFFER" THEN "BUY" ELSE "SELL"]
  IN  BondTradeBookingService_BookTrade([st EXCEPT !.bcnt = (@ + 1) % 3], trade_obj)

\* BondTradeBookingListener::ProcessAdd(ExecutionOrder)
BondTradeBookingListener_ProcessAdd(st, data) ==
  LET id == data.product
      bond == MakeBond(id)
      trade_id == <<Ticker(bond), st.bcnt>>
      book == TradeBooks[st.bcnt + 1]
      qnt == data.hidden + data.visible
      side == IF data.side = "OFFER" THEN "BUY" ELSE "SELL"
      trade_obj == [product |-> bond, tradeId |-> trade_id, price |-> data.price,
                    book |-> book, quantity |-> qnt, side |-> side]
  IN  BondTradeBookingService_BookTrade([st EXCEPT !.bcnt = (@ + 1) % 3], trade_obj)

\* BondExecutionService::ExecuteOrder(order, market)
BondExecutionService_ExecuteOrder(st, order, market) ==
  LET s1 == TLog([st EXCEPT !.orders = Put(@, order.product, order)], "ExecuteOrder",
                 [order |-> order, market |-> market])
  IN  Notify(s1, "Execution", 1, <<"Add">>, order)

\* ProcessUpdate variant that advances the counter before reading the market
BondExecutionListener_ProcessUpdate_AdvanceFirst(st, data) ==
  LET mkt == Markets[((st.mcnt + 1) % 3) + 1]
  IN  BondExecutionService_ExecuteOrder([st EXCEPT !.mcnt = (@ + 1) % 3], data, mkt)

\* BondExecutionListener::ProcessUpdate(AlgoExecution)
BondExecutionListener_ProcessUpdate(st, data) ==
  LET mkt == Markets[st.mcnt + 1]
  IN  BondExecutionService_ExecuteOrder([st EXCEPT !.mcnt = (@ + 1) % 3], data, mkt)

\* the gate with a strict comparison
SpreadMet_Strict(best) == best.bid.price - best.offer.price > MinimumSpread

\* the gate of SendOrder: is the crossed spread at least 1/128
SpreadMet(best) == best.bid.price - best.offer.price >= MinimumSpread

\* the side SendOrder aggresses for a counter value
SideFor(counter) == IF counter % 2 # 0 THEN "BID" ELSE "OFFER"

\* the visible part rounded up instead of truncated
VisibleOf_RoundUp(all_qnt) == CDiv(all_qnt + Divisor - 1, Divisor)

\* the visible part of a quantity
VisibleOf(all_qnt) == CDiv(all_qnt, Divisor)

\* SendOrder variant that leaves the counter as it was
BondAlgoExecutionService_SendOrder_NoIncrement(st, orderBook) ==
  LET id == orderBook.product
      best == OrderBook_GetBestBidOffer(orderBook)
  IN  IF SpreadMet(best)
      THEN LET order_id == <<Ticker(id), st.acnt>>
               side == SideFor(st.acnt)
               all_qnt == IF side = "BID" THEN best.bid.quantity ELSE best.offer.quantity
               visible_qnt == VisibleOf(all_qnt)
               hidden_qnt == all_qnt - visible_qnt
               order == [product |-> id, side |-> side, orderId |-> order_id,
                         type |-> "MARKET", price |-> 1 * Ticks,
                         visible |-> visible_qnt, hidden |-> hidden_qnt,
                         parent |-> "", child |-> FALSE]
               s1 == TLog([st EXCEPT !.algo = Put(@, id, order)], "SendOrder", order)
               s2 == Notify(s1, "AlgoExecution", 1, <<"Update">>, order)
           IN  s2
      ELSE st

\* BondAlgoExecutionService::SendOrder(orderBook)
BondAlgoExecutionService_SendOrder(st, orderBook) ==
  LET id == orderBook.product
      best == OrderBook_GetBestBidOffer(orderBook)
  IN  IF SpreadMet(best)
      THEN LET order_id == <<Ticker(id), st.acnt>>
               side == SideFor(st.acnt)
               all_qnt == IF side = "BID" THEN best.bid.quantity ELSE best.offer.quantity
               visible_qnt == VisibleOf(all_qnt)
               hidden_qnt == all_qnt - visible_qnt
               order == [product |-> id, side |-> side, orderId |-> order_id,
                         type |-> "MARKET", price |-> 1 * Ticks,
                         visible |-> visible_qnt, hidden |-> hidden_qnt,
                         parent |-> "", child |-> FALSE]
               s1 == TLog([st EXCEPT !.algo = Put(@, id, order)], "SendOrder", order)
               s2 == Notify(s1, "AlgoExecution", 1, <<"Update">>, order)
           IN  [s2 EXCEPT !.acnt = @ + 1]
      ELSE st

\* BondMarketDataService::OnMessage(book)
BondMarketDataService_OnMessage(st, data) ==
  LET s1 == TLog([st EXCEPT !.books = Put(@, data.product, data)], "OnMessage", data)
  IN  Notify(s1, "MarketData", 1, <<"Add">>, data)

\* PriceStreamOrder(price, visible, hidden, side)
PriceStreamOrder(price, visible, hidden, side) ==
  [price |-> price, visible |-> visible, hidden |-> hidden, side |-> side]

\* PublishPrice variant that stores the stream without telling the listeners
BondStreamingService_PublishPrice_NoNotify(st, priceStream) ==
  TLog([st EXCEPT !.streams = Put(@, priceStream.product, priceStream)],
       "StreamingPublishPrice", priceStream)

\* BondStreamingService::PublishPrice(priceStream)
BondStreamingService_PublishPrice(st, priceStream) ==
  LET s1 == TLog([st EXCEPT !.streams = Put(@, priceStream.product, priceStream)],
                 "StreamingPublishPrice", priceStream)
  IN  Notify(s1, "Streaming", 1, <<"Add">>, priceStream)

\* the sizes of a stream with the hidden size equal to the visible size
StreamSizes_HiddenEqualsVisible(counter) ==
  LET visible_qnt == IF counter % 2 # 0 THEN 1000000 ELSE 2000000
  IN  [visible |-> visible_qnt, hidden |-> visible_qnt]

\* visible_qnt = (counter_ % 2) ? 1000000 : 2000000; hidden_qnt = 2 * visible_qnt
StreamSizes(counter) ==
  LET visible_qnt == IF counter % 2 # 0 THEN 1000000 ELSE 2000000
  IN  [visible |-> visible_qnt, hidden |-> 2 * visible_qnt]

\* PublishPrice variant that leaves the counter where it is
BondAlgoStreamingService_PublishPrice_NoIncrement(st, price) ==
  LET q == StreamSizes(st.scnt)
      bid_order == PriceStreamOrder(price.mid - CDiv(price.spread, 2), q.visible, q.hidden, "BID")
      offer_order == PriceStreamOrder(price.mid + CDiv(price.spread, 2), q.visible, q.hidden,
                                      "OFFER")
      price_stream == [product |-> price.product, bid |-> bid_order, offer |-> offer_order]
      s1 == TLog([st EXCEPT !.astreams = Put(@, price.product, price_stream)],
                 "AlgoPublishPrice", [price |-> price, stream |-> price_stream])
  IN  Notify(s1, "AlgoStreaming", 1, <<"Update">>, price_stream)

\* BondAlgoStreamingService::PublishPrice(price); prices in 512ths, where
\* 0.5 * spread of a feed price is a whole number
BondAlgoStreamingService_PublishPrice(st, price) ==
  LET mid == price.mid
      spread == price.spread
      bid_price == mid - CDiv(spread, 2)
      offer_price == mid + CDiv(spread, 2)
      q == StreamSizes(st.scnt)
      bid_order == PriceStreamOrder(bid_price, q.visible, q.hidden, "BID")
      offer_order == PriceStreamOrder(offer_price, q.visible, q.hidden, "OFFER")
      price_stream == [product |-> price.product, bid |-> bid_order, offer |-> offer_order]
      s1 == TLog([st EXCEPT !.astreams = Put(@, price.product, price_stream)],
                 "AlgoPublishPrice", [price |-> price, stream |-> price_stream])
      s2 == Notify(s1, "AlgoStreaming", 1, <<"Update">>, price_stream)
  IN  [s2 EXCEPT !.scnt = @ + 1]

\* HistoricalDataListener<PriceStream>::ProcessAdd -> PersistData -> connector Publish
HistoricalDataListener_Stream_ProcessAdd(st, data) ==
  TLog([st EXCEPT !.shist = Put(@, data.product, data)], "PublishStream", data)

\* BondPricingService::OnMessage(data)
BondPricingService_OnMessage(st, data) ==
  LET s1 == TLog([st EXCEPT !.prices = Put(@, data.product, data)], "PricingOnMessage", data)
  IN  Notify(s1, "Pricing", 1, <<"Add">>, data)

\* one listener callback: ProcessAdd / ProcessUpdate of the named listener
Dispatch(st, l, ev, data) ==
  CASE l = "BondGUIListener" /\ ev = "Add" ->
         [st EXCEPT !.gui = BondGUIListener_ProcessAdd(@, data)]
    [] l = "BondAlgoStreamingListener" /\ ev = "Add" ->
         BondAlgoStreamingService_PublishPrice(st, data)
    [] l = "BondStreamingListener" /\ ev = "Update" ->
         BondStreamingService_PublishPrice(st, data)
    [] l = "HistoricalDataListener_Stream" /\ ev = "Add" ->
         HistoricalDataListener_Stream_ProcessAdd(st, data)
    [] l = "BondAlgoExecutionListener" /\ ev = "Add" ->
         BondAlgoExecutionService_SendOrder(st, data)
    [] l = "BondExecutionListener" /\ ev = "Update" ->
         BondExecutionListener_ProcessUpdate(st, data)
    [] l = "BondTradeBookingListener" /\ ev = "Add" ->
         BondTradeBookingListener_ProcessAdd(st, data)
    [] l = "BondPositionListener" /\ ev = "Update" ->
         BondPositionService_AddTrade(st, data)
    [] l = "BondRiskListener" /\ ev = "Update" ->
         BondRiskService_AddPosition(st, data)
    [] l = "HistoricalDataListener_Risk" /\ ev = "Add" ->
         BondHistoricalRiskConnector_Publish(st, data)
    [] l = "HistoricalDataListener_Position" /\ ev = "Add" ->
         BondHistoricalPositionConnector_Publish(st, data)
    [] l = "HistoricalDataListener_Execution" /\ ev = "Add" ->
         TLog(st, "PublishExecution", data)
    [] OTHER -> st

\* BondMarketDataService::GetData(key)
BondMarketDataService_GetData(books, key) ==
  GetData(books, key, [product |-> "", bids |-> <<>>, offers |-> <<>>])

\* std::stol on a string of digits: throws std::invalid_argument when the
\* string does not start with a number
stol(str) == stod(str)

\* long orders_per_bond = 10L
orders_per_bond == 10

\* the switch of BondMarketDataConnector::Subscribe: case BID has no break and
\* falls through to case OFFER
BondMarketDataConnector_Push(c, order) ==
  [c EXCEPT !.bid_stack = IF order.side = "BID" THEN Append(@, order) ELSE @,
            !.offer_stack = Append(@, order)]

\* one iteration of the loop of BondMarketDataConnector::Subscribe on a line
\* that parsed to order: the connector after it and the book it hands over
BondMarketDataConnector_Line(c, cusip, order) ==
  LET c1 == BondMarketDataConnector_Push([c EXCEPT !.counter = @ + 1], order)
  IN  IF c1.counter % orders_per_bond = 0
      THEN [conn |-> [c1 EXCEPT !.counter = 0, !.bid_stack = <<>>, !.offer_stack = <<>>],
            book |-> {[product |-> MakeBond(cusip), bids |-> c1.bid_stack,
                       offers |-> c1.offer_stack]}]
      ELSE [conn |-> c1, book |-> {}]

\* the body of the loop of BondTradeBookingConnector::Subscribe up to the
\* construction of trade_obj: {trade_obj}, or {} when a conversion throws
BondTradeBookingConnector_Row(row) ==
  LET bond == MakeBond(row.cusip)
      trade_price == StringToPrice(row.price)
      trade_size == stol(row.size)
      side == IF row.side = "BUY" THEN "BUY" ELSE "SELL"
  IN  IF trade_price = {} \/ trade_size = {} THEN {}
      ELSE {[product |-> bond, tradeId |-> row.tradeId, price |-> Value(trade_price),
             book |-> row.book, quantity |-> Value(trade_size), side |-> side]}

\* the entry books_[productId] creates for a product without a book
DefaultBook == [product |-> "", bids |-> <<>>, offers |-> <<>>]

\* no call made yet on the market-data service
NoCall == [op |-> "none", id |-> "", before |-> DefaultBook, ret |-> DefaultBook,
           again |-> FALSE]

\* the merge loop with assignment in place of += for a price already seen
RECURSIVE MergeLoop_Overwrite(_, _, _)
MergeLoop_Overwrite(stack, i, map) ==
  IF i > Len(stack) THEN map
  ELSE MergeLoop_Overwrite(stack, i + 1, Put(map, stack[i].price, stack[i].quantity))

\* the loops of AggregateDepth over one stack: price -> summed quantity
RECURSIVE MergeLoop(_, _, _)
MergeLoop(stack, i, map) ==
  IF i > Len(stack) THEN map
  ELSE LET price == stack[i].price
       IN  MergeLoop(stack, i + 1,
                     IF price \in DOMAIN map
                     THEN [map EXCEPT ![price] = @ + stack[i].quantity]
                     ELSE Put(map, price, stack[i].quantity))

\* all the orders a set can be iterated in
RECURSIVE Orderings(_)
Orderings(S) ==
  IF S = {} THEN {<<>>}
  ELSE UNION {{<<x>> \o q : q \in Orderings(S \ {x})} : x \in S}

\* a merged stack that keeps the best price level only
MergedStacks_BestOnly(map, side) ==
  LET best == IF side = "BID"
              THEN CHOOSE p \in DOMAIN map : \A q \in DOMAIN map : q <= p
              ELSE CHOOSE p \in DOMAIN map : \A q \in DOMAIN map : p <= q
  IN  IF DOMAIN map = {} THEN {<<>>} ELSE {<<Ord(best, map[best], side)>>}

\* the merged stack built by iterating an unordered_map: one order per key,
\* in an order the container does not specify
MergedStacks(map, side) ==
  {[i \in 1..Len(q) |-> Ord(q[i], map[q[i]], side)] : q \in Orderings(DOMAIN map)}

\* AggregateDepth with the merged orders pushed onto copies of the old stacks
BondMarketDataService_AggregateDepth_Appending(books, productId) ==
  LET book == GetOrDefault(books, productId, DefaultBook)
  IN  {Put(books, productId, [product |-> MakeBond(productId),
                              bids |-> book.bids \o new_bids,
                              offers |-> book.offers \o new_offers]) :
         new_bids \in MergedStacks(MergeLoop(book.bids, 1, EmptyMap), "BID"),
         new_offers \in MergedStacks(MergeLoop(book.offers, 1, EmptyMap), "OFFER")}

\* BondMarketDataService::AggregateDepth(productId): the stored books it can
\* leave behind; the value returned is the entry stored for productId
BondMarketDataService_AggregateDepth(books, productId) ==
  LET book == GetOrDefault(books, productId, DefaultBook)
  IN  {Put(books, productId, [product |-> MakeBond(productId),
                              bids |-> new_bids, offers |-> new_offers]) :
         new_bids \in MergedStacks(MergeLoop(book.bids, 1, EmptyMap), "BID"),
         new_offers \in MergedStacks(MergeLoop(book.offers, 1, EmptyMap), "OFFER")}

\* BondMarketDataService::GetBestBidOffer(productId), for a stored book
BondMarketDataService_GetBestBidOffer(books, productId) ==
  OrderBook_GetBestBidOffer(books[productId])

RECURSIVE Callbacks(_, _, _, _, _, _)
\* the callbacks one listener gets for one notification, in the order of evs
Callbacks(st, svc, l, evs, j, data) ==
  IF j > Len(evs) THEN st
  ELSE LET s1 == Dispatch(Mark(st, "call", svc, l, evs[j]), l, evs[j], data)
       IN  Callbacks(Mark(s1, "ret", svc, l, evs[j]), svc, l, evs, j + 1, data)

\* the loop walking listeners_ from the back
RECURSIVE Notify_Reversed(_, _, _, _, _)
Notify_Reversed(st, svc, i, evs, data) ==
  IF i > Len(Registered(svc)) THEN Mark(IF i = 1 THEN Mark(st, "begin", svc, "", "") ELSE st,
                                        "end", svc, "", "")
  ELSE Notify_Reversed(Callbacks(IF i = 1 THEN Mark(st, "begin", svc, "", "") ELSE st,
                                 svc, Registered(svc)[Len(Registered(svc)) + 1 - i],
                                 evs, 1, data),
                       svc, i + 1, evs, data)

\* for (auto l : listeners_) { l->Process...(data); ... } of service svc
Notify(st, svc, i, evs, data) ==
  IF i > Len(Registered(svc)) THEN Mark(IF i = 1 THEN Mark(st, "begin", svc, "", "") ELSE st,
                                        "end", svc, "", "")
  ELSE Notify(Callbacks(IF i = 1 THEN Mark(st, "begin", svc, "", "") ELSE st,
                        svc, Registered(svc)[i], evs, 1, data),
              svc, i + 1, evs, data)

----------------------------------------------------------------------------
(* Feed events of the trading chain *)

\* number of order books / trades the feeds deliver
MaxBooks == 3
MaxTrades == 2
MaxDepthBooks == 2

\* bid and offer stacks of the inbound books: prices around 100-00, one tick = 1/256
BidStacks ==
  {<<Ord(p, q, "BID")>> : p \in {25599, 25601, 25602}, q \in {6, 1000000}}
    \cup {<<Ord(25601, 6, "BID"), Ord(25602, 1000000, "BID")>>,
          <<Ord(25602, 6, "BID"), Ord(25602, 1000000, "BID")>>}

OfferStacks ==
  {<<Ord(25600, q, "OFFER")>> : q \in {0, 9}}
    \cup {<<Ord(25603, 0, "OFFER"), Ord(25600, 9, "OFFER")>>}

BookCusips == {"91282CJL6", "91282CJN2"}

BookInputs ==
  {[product |-> c, bids |-> b, offers |-> o] :
     c \in BookCusips, b \in BidStacks, o \in OfferStacks}

TradeCusips == {"91282CJL6", "91282CJK8", "91282CJN2"}
TradeIds == {"T1", "T2"}
FeedBooks == {"TRSY1", "TRSY2"}

TradeInputs ==
  {[product |-> MakeBond(c), tradeId |-> t, price |-> 100 * Ticks, book |-> b,
    quantity |-> q, side |-> sd] :
     c \in TradeCusips, t \in TradeIds, b \in FeedBooks, q \in {40, 100},
     sd \in {"BUY", "SELL"}}

\* books with several orders at one price, for the depth aggregation; the last
\* offer stack holds a BID order, as the feed's switch pushes bids on both stacks
DepthBidStacks ==
  {<<Ord(25472, 5, "BID"), Ord(25504, 7, "BID")>>,
   <<Ord(25602, 6, "BID"), Ord(25602, 1000000, "BID")>>,
   <<Ord(25504, 5, "BID"), Ord(25472, 7, "BID"), Ord(25504, 11, "BID")>>}

DepthOfferStacks ==
  {<<Ord(25536, 4, "OFFER"), Ord(25568, 8, "OFFER")>>,
   <<Ord(25600, 9, "OFFER"), Ord(25600, 3, "OFFER")>>,
   <<Ord(25504, 5, "BID"), Ord(25536, 4, "OFFER"), Ord(25504, 2, "OFFER")>>}

DepthInputs ==
  {[product |-> c, bids |-> b, offers |-> o] :
     c \in BookCusips, b \in DepthBidStacks, o \in DepthOfferStacks}

\* product ids AggregateDepth and GetBestBidOffer are called with
DepthIds == BookCusips \cup {"91282CJK8"}

\* number of orders handed to the execution service
MaxExecs == 4

\* execution orders as BondAlgoExecutionService::SendOrder builds them
ExecOrder(id, side, visible, hidden) ==
  [product |-> id, side |-> side, orderId |-> <<Ticker(id), 0>>, type |-> "MARKET",
   price |-> 1 * Ticks, visible |-> visible, hidden |-> hidden, parent |-> "",
   child |-> FALSE]

ExecInputs ==
  {ExecOrder("91282CJL6", "BID", 1, 5), ExecOrder("91282CJL6", "OFFER", 2, 7),
   ExecOrder("91282CJN2", "OFFER", 250000, 750000)}

\* the order with the id SendOrder gives the order it emits at a counter value
Numbered(order, counter) == [order EXCEPT !.orderId = <<Ticker(order.product), counter>>]

\* venues of the direct calls of ExecuteOrder
DirectMarkets == {"BROKERTEC", "CME"}

\* number of calls made with a key
MaxKeyCalls == 3

\* an instrument of the reference set and one outside it
KeyIds == {"91282CJL6", "912828ZZ9"}

\* trades and positions for those instruments
KeyTrades ==
  {[product |-> id, tradeId |-> "T1", price |-> 100 * Ticks, book |-> "TRSY1",
    quantity |-> 40, side |-> sd] : id \in KeyIds, sd \in {"BUY", "SELL"}}

KeyPositions ==
  {[product |-> id, positions |-> [b \in {"TRSY1", "TRSY2"} |-> IF b = "TRSY1" THEN q ELSE 3]] :
     id \in KeyIds, q \in {0 - 5, 7}}

\* number of lines of the market-data file
MaxLines == 10

\* lines of the market-data file: cusip, price, quantity, side; a run has
\* 5 BID and 5 OFFER lines, in any order
MdLine(price, size, side) ==
  [cusip |-> "91282CJL6", price |-> price, size |-> size, side |-> side]

MdLines ==
  {MdLine(<<"1", "0", "0", "-", "0", "0", "2">>, <<"8">>, "BID"),
   MdLine(<<"1", "0", "0", "-", "0", "0", "1">>, <<"6">>, "BID"),
   MdLine(<<"1", "0", "0", "-", "0", "0", "0">>, <<"1", "2">>, "OFFER"),
   MdLine(<<"1", "0", "0", "-", "0", "0", "0">>, <<"a", "b", "c">>, "OFFER")}

\* number of rows of the trade file
MaxRows == 4

\* rows of the trade file: cusip, trade id, price, book, quantity, side; the
\* last two do not parse (std::stol and std::stod find no number)
TradeRow(cusip, price, size, side) ==
  [cusip |-> cusip, tradeId |-> "T1", price |-> price, book |-> "TRSY1", size |-> size,
   side |-> side]

TradeRows ==
  {TradeRow(c, <<"1", "0", "0", "-", "0", "0", "0">>, <<"4", "0">>, sd) :
     c \in {"91282CJL6", "91282CJN2"}, sd \in {"BUY", "SELL"}}
    \cup {TradeRow("91282CJL6", <<"1", "0", "0", "-", "0", "0", "0">>, <<"a", "b", "c">>, "BUY"),
          TradeRow("91282CJL6", <<"x", "-", "0", "0", "0">>, <<"4", "0">>, "SELL")}

SectorNames == Sectors \cup {"Unknown"}

LedgerBooks == SeqRange(TradeBooks)

ChainSt ==
  [books |-> books_, algo |-> algo_execs_, acnt |-> algo_counter_, orders |-> orders_,
   mcnt |-> exec_counter_, trades |-> trades_, bcnt |-> booking_counter_,
   pos |-> positions_, pv |-> pv_, bkt |-> pv_buckets_, tr |-> <<>>, cb |-> <<>>,
   prices |-> prices_, astreams |-> algo_streams_, scnt |-> stream_counter_,
   streams |-> streams_, shist |-> streamHist_,
   gui |-> [counter |-> gui_counter_, elapsed |-> gui_elapsed, prices |-> gui_prices_,
            out |-> <<>>]]

\* the ledger after the AddTrade calls logged in a trace
RECURSIVE LedgerAfter(_, _, _)
LedgerAfter(l, tr, i) ==
  IF i > Len(tr) THEN l
  ELSE IF tr[i].op = "AddTrade" /\ tr[i].data.product \in DOMAIN l
       THEN LET t == tr[i].data
                signed == IF t.side = "BUY" THEN t.quantity ELSE 0 - t.quantity
            IN  LedgerAfter([l EXCEPT ![t.product][t.book] = @ + signed], tr, i + 1)
       ELSE LedgerAfter(l, tr, i + 1)

\* product and order id of the orders SendOrder emitted in a trace
RECURSIVE SentIn(_, _)
SentIn(tr, i) ==
  IF i > Len(tr) THEN <<>>
  ELSE IF tr[i].op = "SendOrder"
       THEN <<[product |-> tr[i].data.product, orderId |-> tr[i].data.orderId]>>
              \o SentIn(tr, i + 1)
       ELSE SentIn(tr, i + 1)

\* number of callbacks listener l got in a dispatch log
CallsOf(cb, l) == Cardinality({i \in 1..Len(cb) : cb[i].k = "call" /\ cb[i].l = l})

ChainApply(r) ==
  /\ books_' = r.books
  /\ algo_execs_' = r.algo
  /\ algo_counter_' = r.acnt
  /\ orders_' = r.orders
  /\ exec_counter_' = r.mcnt
  /\ trades_' = r.trades
  /\ booking_counter_' = r.bcnt
  /\ positions_' = r.pos
  /\ pv_' = r.pv
  /\ pv_buckets_' = r.bkt
  /\ chainTrace' = r.tr
  /\ cbTrace' = r.cb
  /\ ledger' = LedgerAfter(ledger, r.tr, 1)
  /\ received' = [l \in DOMAIN received |-> received[l] + CallsOf(r.cb, l)]
  /\ sentOrders' = sentOrders \o SentIn(r.tr, 1)

\* BondMarketDataConnector::Subscribe: one order book handed to the service
MarketDataIngest ==
  /\ nEvents < MaxBooks
  /\ \E book \in BookInputs : ChainApply(BondMarketDataService_OnMessage(ChainSt, book))
  /\ nEvents' = nEvents + 1
  /\ UNCHANGED <<aggLog, conn, inqVars, guiVars, codecVars, streamVars>>

\* BondTradeBookingConnector::Subscribe: one trade handed to the service
TradeIngest ==
  /\ nEvents < MaxTrades
  /\ \E trade \in TradeInputs : ChainApply(BondTradeBookingService_BookTrade(ChainSt, trade))
  /\ nEvents' = nEvents + 1
  /\ UNCHANGED <<aggLog, conn, inqVars, guiVars, codecVars, streamVars>>

\* a direct call of BondRiskService::UpdateBucketedRisk
RecomputeBucket ==
  /\ \E sector \in SectorNames : ChainApply(BondRiskService_UpdateBucketedRisk(ChainSt, sector))
  /\ UNCHANGED <<nEvents, aggLog, conn, inqVars, guiVars, codecVars, streamVars>>

\* the algo-execution service calls ProcessUpdate of the execution listener
AlgoExecutionUpdate ==
  /\ nEvents < MaxExecs
  /\ \E order \in ExecInputs :
       ChainApply(Callbacks(ChainSt, "AlgoExecution", "BondExecutionListener", <<"Update">>,
                            1, Numbered(order, nEvents)))
  /\ nEvents' = nEvents + 1
  /\ UNCHANGED <<aggLog, conn, inqVars, guiVars, codecVars, streamVars>>

\* a direct call of BondExecutionService::ExecuteOrder
ExecuteOrder ==
  /\ nEvents < MaxExecs
  /\ \E order \in ExecInputs, market \in DirectMarkets :
       ChainApply(BondExecutionService_ExecuteOrder(ChainSt, Numbered(order, nEvents), market))
  /\ nEvents' = nEvents + 1
  /\ UNCHANGED <<aggLog, conn, inqVars, guiVars, codecVars, streamVars>>

\* the latest call, for the calls made with a key
KeyCall(op, id, stored, ret) ==
  [op |-> op, id |-> id, before |-> stored, ret |-> ret, again |-> FALSE]

UnchangedChain ==
  UNCHANGED <<algo_execs_, algo_counter_, orders_, exec_counter_, trades_, booking_counter_,
              ledger, received, sentOrders>>

\* GetData(key) on the position, risk and market-data services
GetDataCall ==
  /\ nEvents < MaxKeyCalls
  /\ \E key \in KeyIds :
       \/ LET r == BondPositionService_GetData(positions_, key)
          IN  /\ positions_' = r.map
              /\ aggLog' = KeyCall("Position.GetData", key, key \in DOMAIN positions_, r.ret)
              /\ UNCHANGED <<pv_, books_>>
       \/ LET r == BondRiskService_GetData(pv_, key)
          IN  /\ pv_' = r.map
              /\ aggLog' = KeyCall("Risk.GetData", key, key \in DOMAIN pv_, r.ret)
              /\ UNCHANGED <<positions_, books_>>
       \/ LET r == BondMarketDataService_GetData(books_, key)
          IN  /\ books_' = r.map
              /\ aggLog' = KeyCall("MarketData.GetData", key, key \in DOMAIN books_, r.ret)
              /\ UNCHANGED <<positions_, pv_>>
  /\ nEvents' = nEvents + 1
  /\ chainTrace' = <<>>
  /\ cbTrace' = <<>>
  /\ UnchangedChain
  /\ UNCHANGED <<pv_buckets_, conn, inqVars, guiVars, codecVars, streamVars>>

\* a direct call of BondPositionService::AddTrade
AddTradeCall ==
  /\ nEvents < MaxKeyCalls
  /\ \E trade \in KeyTrades :
       /\ ChainApply(BondPositionService_AddTrade(ChainSt, trade))
       /\ aggLog' = KeyCall("AddTrade", trade.product, trade.product \in DOMAIN positions_,
                            {trade})
  /\ nEvents' = nEvents + 1
  /\ UNCHANGED <<conn, inqVars, guiVars, codecVars, streamVars>>

\* a direct call of BondRiskService::AddPosition
AddPositionCall ==
  /\ nEvents < MaxKeyCalls
  /\ \E position \in KeyPositions :
       /\ ChainApply(BondRiskService_AddPosition(ChainSt, position))
       /\ aggLog' = KeyCall("AddPosition", position.product, position.product \in DOMAIN pv_,
                            {position})
  /\ nEvents' = nEvents + 1
  /\ UNCHANGED <<conn, inqVars, guiVars, codecVars, streamVars>>

\* a call of BondRiskService::GetBucketedRisk(sectorName)
GetBucketedRiskCall ==
  /\ \E sector \in SectorNames :
       aggLog' = KeyCall("GetBucketedRisk", sector, sector \in DOMAIN pv_buckets_,
                         BondRiskService_GetBucketedRisk(pv_buckets_, sector))
  /\ chainTrace' = <<>>
  /\ cbTrace' = <<>>
  /\ UnchangedChain
  /\ UNCHANGED <<positions_, pv_, books_, pv_buckets_, nEvents>>
  /\ UNCHANGED <<conn, inqVars, guiVars, codecVars, streamVars>>

\* a direct call of BondRiskService::UpdateBucketedRisk(sector)
UpdateBucketedRiskCall ==
  /\ \E sector \in SectorNames :
       /\ ChainApply(BondRiskService_UpdateBucketedRisk(ChainSt, sector))
       /\ aggLog' = KeyCall("UpdateBucketedRisk", sector, sector \in DOMAIN pv_buckets_,
                            {sector})
  /\ UNCHANGED <<nEvents, conn, inqVars, guiVars, codecVars, streamVars>>

\* the services of the chain when no call reaches them
NoServiceCall ==
  /\ chainTrace' = <<>>
  /\ cbTrace' = <<>>
  /\ UNCHANGED <<books_, algo_execs_, algo_counter_, orders_, exec_counter_, trades_,
                 booking_counter_, positions_, pv_, pv_buckets_, ledger, received, sentOrders>>

\* the exception of a row that does not parse leaves the loop of Subscribe
Thrown == [conn EXCEPT !.open = FALSE, !.rows = @ + 1, !.last = "malformed"]

\* BondMarketDataConnector::Subscribe reads the next line of its file
MarketDataLine ==
  /\ conn.open
  /\ conn.rows < MaxLines
  /\ \E line \in MdLines :
       /\ Len(SelectSeq(conn.run, LAMBDA o : o.side = line.side)) < orders_per_bond \div 2
       /\ LET order_price == StringToPrice(line.price)
             order_size == stol(line.size)
         IN  IF order_price = {} \/ order_size = {}
             THEN conn' = Thrown /\ NoServiceCall /\ UNCHANGED nEvents
             ELSE LET order == Ord(Value(order_price), Value(order_size),
                                   IF line.side = "BID" THEN "BID" ELSE "OFFER")
                      r == BondMarketDataConnector_Line(conn, line.cusip, order)
                      seen == [r.conn EXCEPT !.rows = @ + 1, !.wellFormed = @ + 1,
                                             !.run = Append(@, order)]
                  IN  IF r.book = {}
                      THEN /\ conn' = [seen EXCEPT !.last = "line"]
                           /\ NoServiceCall
                           /\ UNCHANGED nEvents
                      ELSE /\ conn' = [seen EXCEPT !.last = "book", !.lastRun = seen.run,
                                                   !.run = <<>>, !.handed = @ + 1]
                           /\ ChainApply(BondMarketDataService_OnMessage(ChainSt,
                                                                         Value(r.book)))
                           /\ nEvents' = nEvents + 1
  /\ UNCHANGED <<aggLog, inqVars, guiVars, codecVars, streamVars>>

\* BondTradeBookingConnector::Subscribe reads the next row of its file
TradeRowRead ==
  /\ conn.open
  /\ conn.rows < MaxRows
  /\ \E row \in TradeRows :
       LET trade_obj == BondTradeBookingConnector_Row(row)
       IN  IF trade_obj = {}
           THEN conn' = Thrown /\ NoServiceCall /\ UNCHANGED nEvents
           ELSE /\ conn' = [conn EXCEPT !.rows = @ + 1, !.wellFormed = @ + 1,
                                        !.handed = @ + 1, !.last = "row"]
                /\ ChainApply(BondTradeBookingService_BookTrade(ChainSt, Value(trade_obj)))
                /\ nEvents' = nEvents + 1
  /\ UNCHANGED <<aggLog, inqVars, guiVars, codecVars, streamVars>>

\* a row of the file behind the row whose exception ended Subscribe: no code
\* reads it
TradeRowUnread ==
  /\ ~conn.open
  /\ conn.rows < MaxRows
  /\ \E row \in TradeRows :
       conn' = [conn EXCEPT !.rows = @ + 1, !.last = "unread",
                            !.wellFormed = IF BondTradeBookingConnector_Row(row) = {}
                                           THEN @ ELSE @ + 1]
  /\ NoServiceCall
  /\ UNCHANGED <<nEvents, aggLog, inqVars, guiVars, codecVars, streamVars>>

InitChain ==
  /\ books_ = EmptyMap
  /\ algo_execs_ = EmptyMap
  /\ algo_counter_ = 0
  /\ orders_ = EmptyMap
  /\ exec_counter_ = 0
  /\ trades_ = EmptyMap
  /\ booking_counter_ = 0
  /\ positions_ = [c \in Cusips |-> EmptyMap]
  /\ pv_ = [c \in Cusips |-> [product |-> c, pv01 |-> PV_Map[c], quantity |-> 0]]
  /\ pv_buckets_ = [s \in Sectors |->
                      [name |-> s, products |-> BucketMap[s], pv01 |-> Zero, quantity |-> 0]]
  /\ chainTrace = <<>>
  /\ ledger = [c \in Cusips |-> [b \in LedgerBooks |-> 0]]
  /\ nEvents = 0
  /\ aggLog = NoCall
  /\ received = [l \in {"BondExecutionListener", "BondTradeBookingListener"} |-> 0]
  /\ sentOrders = <<>>
  /\ conn = [open |-> TRUE, counter |-> 0, bid_stack |-> <<>>, offer_stack |-> <<>>,
             run |-> <<>>, lastRun |-> <<>>, rows |-> 0, wellFormed |-> 0, handed |-> 0,
             last |-> "none"]

NextMkt == MarketDataIngest

\* one order book with repeated prices handed to the market-data service
DepthIngest ==
  /\ nEvents < MaxDepthBooks
  /\ \E book \in DepthInputs :
       /\ ChainApply(BondMarketDataService_OnMessage(ChainSt, book))
       /\ aggLog' = [NoCall EXCEPT !.op = "OnMessage", !.id = book.product]
  /\ nEvents' = nEvents + 1
  /\ UNCHANGED <<conn, inqVars, guiVars, codecVars, streamVars>>

\* a call of BondMarketDataService::AggregateDepth
AggregateDepth ==
  /\ \E productId \in DepthIds :
       \E bs \in BondMarketDataService_AggregateDepth(books_, productId) :
         /\ books_' = bs
         /\ aggLog' = [op |-> "AggregateDepth", id |-> productId,
                       before |-> GetOrDefault(books_, productId, DefaultBook),
                       ret |-> bs[productId],
                       again |-> aggLog.op = "AggregateDepth" /\ aggLog.id = productId]
  /\ chainTrace' = <<>>
  /\ cbTrace' = <<>>
  /\ UNCHANGED <<algo_execs_, algo_counter_, orders_, exec_counter_, trades_,
                 booking_counter_, positions_, pv_, pv_buckets_, ledger, nEvents,
                 received, sentOrders>>
  /\ UNCHANGED <<conn, inqVars, guiVars, codecVars, streamVars>>

\* a call of BondMarketDataService::GetBestBidOffer on a stored, non-empty book
GetBestBidOffer ==
  /\ \E productId \in DOMAIN books_ :
       /\ books_[productId].bids # <<>> /\ books_[productId].offers # <<>>
       /\ aggLog' = [op |-> "GetBestBidOffer", id |-> productId,
                     before |-> books_[productId],
                     ret |-> BondMarketDataService_GetBestBidOffer(books_, productId),
                     again |-> FALSE]
  /\ chainTrace' = <<>>
  /\ cbTrace' = <<>>
  /\ UNCHANGED <<books_, algo_execs_, algo_counter_, orders_, exec_counter_, trades_,
                 booking_counter_, positions_, pv_, pv_buckets_, ledger, nEvents,
                 received, sentOrders>>
  /\ UNCHANGED <<conn, inqVars, guiVars, codecVars, streamVars>>

NextDepth == DepthIngest \/ AggregateDepth \/ GetBestBidOffer

NextTrade == TradeIngest \/ RecomputeBucket

NextExec == AlgoExecutionUpdate \/ ExecuteOrder

NextBookFeed == MarketDataLine

NextTradeFeed == TradeRowRead \/ TradeRowUnread

NextKeys ==
  GetDataCall \/ AddTradeCall \/ AddPositionCall \/ GetBucketedRiskCall
    \/ UpdateBucketedRiskCall

----------------------------------------------------------------------------
(* Claims about the algo-execution service *)

SetMax(S) == CHOOSE x \in S : \A y \in S : y <= x
SetMin(S) == CHOOSE x \in S : \A y \in S : x <= y

\* best bid price minus best offer price of a book, in ticks
CrossedBy(book) ==
  SetMax({book.bids[i].price : i \in 1..Len(book.bids)})
    - SetMin({book.offers[i].price : i \in 1..Len(book.offers)})

\* the latest event was an order-book update
BookUpdate(tr) == Len(tr) > 0 /\ tr[1].op = "OnMessage"

\* the orders SendOrder emitted while handling the latest event
Emitted(tr) == {i \in 1..Len(tr) : tr[i].op = "SendOrder"}

C4_EvenBidOddOffer ==
  \A i \in Emitted(chainTrace) :
    chainTrace[i].data.side =
      (IF chainTrace[i].data.orderId[2] % 2 = 0 THEN "BID" ELSE "OFFER")

\* C5: every emitted order takes the full quantity q of the best order on its
\* side and splits it as visible = floor(q/4), hidden = q - visible.
C5_VisibleHiddenSplit ==
  BookUpdate(chainTrace) =>
    \A i \in Emitted(chainTrace) :
      LET o == chainTrace[i].data
          best == OrderBook_GetBestBidOffer(chainTrace[1].data)
          q == IF o.side = "BID" THEN best.bid.quantity ELSE best.offer.quantity
      IN  /\ 4 * o.visible <= q /\ q < 4 * (o.visible + 1)
          /\ o.hidden = q - o.visible
          /\ o.visible + o.hidden = q
          /\ q = 1000000 => (o.visible = 250000 /\ o.hidden = 750000)

\* orders were emitted for a quantity of 1,000,000 and, earlier, on the other side
C5_Witness ==
  /\ BookUpdate(chainTrace)
  /\ \E i \in Emitted(chainTrace) :
       chainTrace[i].data.visible = 250000 /\ chainTrace[i].data.hidden = 750000
  /\ algo_counter_ >= 2

\* the order id as SendOrder writes it: ticker, the fixed tag, the counter in decimal
OrderIdString(order_id) == <<order_id[1], "57747FFC", to_string(order_id[2])>>

\* C33: the algo-execution counter starts at 0 and always equals the number of
\* orders emitted so far, so the order ids (ticker + fixed tag + counter) of
\* any two emitted orders of the same instrument are distinct.
C33_CounterCountsOrders ==
  /\ algo_counter_ = Len(sentOrders)
  /\ \A i \in 1..Len(sentOrders) :
       sentOrders[i].orderId = <<Ticker(sentOrders[i].product), i - 1>>
  /\ \A i, j \in 1..Len(sentOrders) :
       (i # j /\ sentOrders[i].product = sentOrders[j].product)
         => OrderIdString(sentOrders[i].orderId) # OrderIdString(sentOrders[j].orderId)

\* three books were ingested, one of them emitted nothing, and the two orders
\* emitted are of the same instrument
C33_Witness ==
  /\ nEvents = 3
  /\ Len(sentOrders) = 2
  /\ algo_counter_ = 2
  /\ sentOrders[1].product = sentOrders[2].product
  /\ Len(chainTrace) > 1

----------------------------------------------------------------------------
(* Claims about the market-data service *)

\* the orders of a stack as <<price, quantity>> pairs
Pairs(stack) == {<<stack[i].price, stack[i].quantity>> : i \in 1..Len(stack)}

SameContent(a, b) ==
  /\ Len(a.bids) = Len(b.bids) /\ Pairs(a.bids) = Pairs(b.bids)
  /\ Len(a.offers) = Len(b.offers) /\ Pairs(a.offers) = Pairs(b.offers)

\* C12: aggregating a book that was just aggregated yields the same book
\* (same price -> quantity content on each side), stored and returned.
C12_AggregateIdempotent ==
  (aggLog.op = "AggregateDepth" /\ aggLog.again) =>
     /\ SameContent(books_[aggLog.id], aggLog.before)
     /\ SameContent(aggLog.ret, aggLog.before)

\* a book with repeated prices on both sides was aggregated twice in a row
C12_Witness ==
  /\ aggLog.op = "AggregateDepth" /\ aggLog.again
  /\ Pairs(books_[aggLog.id].bids) = {<<25602, 1000006>>}
  /\ Pairs(books_[aggLog.id].offers) = {<<25600, 12>>}

\* the total quantity of the orders of a stack at a price
QtyAt(stack, p) ==
  LET I == {i \in 1..Len(stack) : stack[i].price = p}
  IN  SumOver([i \in I |-> stack[i].quantity], I)

\* merged is the aggregation of stack: one order per distinct price of stack,
\* carrying the summed quantity and the side of the stack it stands in
AggregatedFrom(merged, stack, side) ==
  /\ \A i, j \in 1..Len(merged) : merged[i].price = merged[j].price => i = j
  /\ {merged[i].price : i \in 1..Len(merged)} = {stack[i].price : i \in 1..Len(stack)}
  /\ \A i \in 1..Len(merged) :
       /\ merged[i].quantity = QtyAt(stack, merged[i].price)
       /\ merged[i].side = side

\* C13: AggregateDepth leaves, on each side, one order per distinct price of
\* the stored book with the summed quantity of that side's orders at that
\* price; the result is the stored book and the value returned.
C13_AggregateSumsPerPrice ==
  aggLog.op = "AggregateDepth" =>
     /\ AggregatedFrom(books_[aggLog.id].bids, aggLog.before.bids, "BID")
     /\ AggregatedFrom(books_[aggLog.id].offers, aggLog.before.offers, "OFFER")
     /\ aggLog.ret = books_[aggLog.id]

\* three bids at two prices were merged into two orders, the offers at one
\* price into one
C13_Witness ==
  /\ aggLog.op = "AggregateDepth" /\ ~aggLog.again
  /\ Len(aggLog.before.bids) = 3
  /\ Pairs(books_[aggLog.id].bids) = {<<25504, 16>>, <<25472, 7>>}
  /\ Pairs(books_[aggLog.id].offers) = {<<25600, 12>>}

\* the first order of a stack at a price
FirstAt(stack, p) ==
  stack[SetMin({i \in 1..Len(stack) : stack[i].price = p})]

\* C14: bestBidOffer of a non-empty book is the first order of the bid stack
\* at its maximum price and the first order of the offer stack at its minimum
\* price; bids [99-16, 99-20] and offers [99-24, 99-28] give 99-20 and 99-24.
C14_BestBidOffer ==
  aggLog.op = "GetBestBidOffer" =>
     LET b == aggLog.before
         maxBid == SetMax({b.bids[i].price : i \in 1..Len(b.bids)})
         minOffer == SetMin({b.offers[i].price : i \in 1..Len(b.offers)})
     IN  /\ aggLog.ret.bid = FirstAt(b.bids, maxBid)
         /\ aggLog.ret.offer = FirstAt(b.offers, minOffer)
         /\ (b.bids = <<Ord(25472, 5, "BID"), Ord(25504, 7, "BID")>>
               => aggLog.ret.bid.price = 99 * Ticks + 20 * 8)
         /\ (b.offers = <<Ord(25536, 4, "OFFER"), Ord(25568, 8, "OFFER")>>
               => aggLog.ret.offer.price = 99 * Ticks + 24 * 8)

\* the best of a book whose bids and offers tie at the best price: the first
\* of the tied orders was returned on both sides
C14_Witness ==
  /\ aggLog.op = "GetBestBidOffer"
  /\ aggLog.before.bids = <<Ord(25602, 6, "BID"), Ord(25602, 1000000, "BID")>>
  /\ aggLog.before.offers = <<Ord(25600, 9, "OFFER"), Ord(25600, 3, "OFFER")>>
  /\ aggLog.ret.bid.quantity = 6
  /\ aggLog.ret.offer.quantity = 9

\* the total quantity of the orders of a stack
Depth(stack) ==
  LET I == 1..Len(stack) IN SumOver([i \in I |-> stack[i].quantity], I)

NonEmptyBook(book) == book.bids # <<>> /\ book.offers # <<>>

\* C39: AggregateDepth preserves the top of the book and the depth: for every
\* stored non-empty book, the best bid price, the best offer price and the
\* total quantity on each side are the same after AggregateDepth(id) as before.
C39_AggregateKeepsTopAndDepth ==
  [][aggLog'.op = "AggregateDepth" =>
       \A id \in DOMAIN books_ :
         NonEmptyBook(books_[id]) =>
           /\ id \in DOMAIN books_'
           /\ NonEmptyBook(books_'[id])
           /\ OrderBook_GetBestBidOffer(books_'[id]).bid.price
                = OrderBook_GetBestBidOffer(books_[id]).bid.price
           /\ OrderBook_GetBestBidOffer(books_'[id]).offer.price
                = OrderBook_GetBestBidOffer(books_[id]).offer.price
           /\ Depth(books_'[id].bids) = Depth(books_[id].bids)
           /\ Depth(books_'[id].offers) = Depth(books_[id].offers)]_vars

\* a book with bids 5 and 11 at 99-20 and 7 at 99-16 was merged into two
\* orders: its best bid is still 99-20 and its bid depth still 23
C39_Witness ==
  /\ aggLog.op = "AggregateDepth" /\ ~aggLog.again
  /\ Len(aggLog.before.bids) = 3
  /\ Len(books_[aggLog.id].bids) = 2
  /\ Len(aggLog.before.offers) = 3
  /\ Len(books_[aggLog.id].offers) = 2
  /\ OrderBook_GetBestBidOffer(books_[aggLog.id]).bid.price = 25504
  /\ Depth(books_[aggLog.id].bids) = 23
  /\ Depth(books_[aggLog.id].offers) = 11

----------------------------------------------------------------------------
(* Claims about the position and risk services *)

\* C6: each book's stored quantity is the sum of BUY minus the sum of SELL
\* quantities of the trades applied to that instrument and book, and the
\* aggregate position is the sum over the books.
C6_PositionIsLedger ==
  \A c \in DOMAIN positions_ :
    /\ \A b \in LedgerBooks : Position_GetPosition(positions_[c], b) = ledger[c][b]
    /\ DOMAIN positions_[c] \subseteq LedgerBooks
    /\ Position_GetAggregatePosition(positions_[c]) = SumOver(ledger[c], LedgerBooks)

\* BUY 100 on one book and SELL 40 on another book of the same instrument
C6_Witness ==
  \E c \in Cusips :
    /\ ledger[c]["TRSY1"] = 100 /\ ledger[c]["TRSY2"] = -40
    /\ Position_GetAggregatePosition(positions_[c]) = 60

\* the record a sector has when recomputed from the instrument records pv
WeightedBucket(pv, products) ==
  LET ids == SeqRange(products)
      qty == [c \in ids |-> pv[c].quantity]
      wgt == [c \in ids |-> pv[c].pv01 * pv[c].quantity]
      total == SumOver(qty, ids)
  IN  [quantity |-> total,
       pv01 |-> IF total = 0 THEN Zero ELSE Frac(SumOver(wgt, ids), total)]

BucketMatches(rec, pv) ==
  LET w == WeightedBucket(pv, rec.products)
  IN  rec.quantity = w.quantity /\ rec.pv01 = w.pv01

\* C7: every sector's stored record equals the quantity-weighted average (and
\* total quantity) of the current records of its constituent instruments.
C7_BucketNeverStale ==
  \A s \in DOMAIN pv_buckets_ : BucketMatches(pv_buckets_[s], pv_)

\* a sector holding two instruments with different non-zero quantities
C7_Witness ==
  /\ pv_["91282CJL6"].quantity = 100
  /\ pv_["91282CJK8"].quantity = -40
  /\ pv_buckets_["FrontEnd"].quantity = 60
  /\ pv_buckets_["FrontEnd"].pv01 = <<1, 3>>

\* the sectors UpdateBucketedRisk was called for while handling the latest event
Recomputed(tr) == {tr[i].data : i \in {j \in 1..Len(tr) : tr[j].op = "UpdateBucketedRisk"}}

\* the instruments AddPosition was called for while handling the latest event
Risked(tr) == {tr[i].data.product : i \in {j \in 1..Len(tr) : tr[j].op = "AddPosition"}}

\* C8: recomputing a sector replaces its record by the total quantity and the
\* weighted PV01 (0 when the total quantity is 0) and changes no instrument
\* record and no other sector's record.
C8_RecomputeBucket ==
  [][/\ \A s \in Recomputed(chainTrace') :
          /\ s \in DOMAIN pv_buckets_'
          /\ BucketMatches(pv_buckets_'[s], pv_')
          /\ (pv_buckets_'[s].quantity = 0 => pv_buckets_'[s].pv01 = Zero)
     /\ \A s \in DOMAIN pv_buckets_ \ Recomputed(chainTrace') :
          pv_buckets_'[s] = pv_buckets_[s]
     /\ \A c \in DOMAIN pv_ \ Risked(chainTrace') : pv_'[c] = pv_[c]
     /\ \A c \in DOMAIN pv_ : pv_'[c].pv01 = pv_[c].pv01]_vars

\* a recomputed sector whose non-zero constituent quantities cancel
C8_Witness ==
  /\ "FrontEnd" \in Recomputed(chainTrace)
  /\ pv_["91282CJL6"].quantity = 100
  /\ pv_["91282CJK8"].quantity = -100
  /\ pv_buckets_["FrontEnd"] .quantity = 0
  /\ pv_buckets_["FrontEnd"].pv01 = Zero

----------------------------------------------------------------------------
(* GUI throttle gate: events *)

\* the GUI state after a call of the gate that left it as r; d is the time
\* between the hand-over to the connector and the restart of the throttle
GuiApply(r, data, d) ==
  /\ gui_counter_' = r.counter
  /\ gui_elapsed' = r.elapsed
  /\ gui_prices_' = r.prices
  /\ guiPublished' = guiPublished + Len(r.out)
  /\ guiLastOut' = IF r.out # <<>> THEN r.out ELSE guiLastOut
  /\ guiLastGap' = IF r.out # <<>> THEN guiSinceEmit ELSE guiLastGap
  /\ guiSinceEmit' = IF r.out # <<>> THEN d ELSE guiSinceEmit
  /\ guiLastCall' = IF r.out # <<>> THEN "emitted" ELSE "dropped"
  /\ guiLastData' = data
  /\ guiCallBit' = 1 - guiCallBit
  /\ guiUptime' = guiUptime

\* one price update reaching the gate
GuiProcessAdd ==
  /\ \E data \in GuiPrices, d \in WriteDelays :
       LET g == [counter |-> gui_counter_, elapsed |-> gui_elapsed,
                 prices |-> gui_prices_, out |-> <<>>]
       IN  GuiApply(BondGUIListener_ProcessAdd(g, data), data, d)
  /\ UNCHANGED <<inqVars, chainVars, codecVars, streamVars, cbVars>>

\* the wall clock advances between two price updates
GuiTick ==
  /\ \E d \in Delays :
       /\ gui_elapsed' = Min(gui_elapsed + d, Throttle)
       /\ guiSinceEmit' = IF guiSinceEmit < 0 THEN guiSinceEmit
                          ELSE Min(guiSinceEmit + d, Throttle)
       /\ guiUptime' = Min(guiUptime + d, Throttle)
  /\ UNCHANGED <<gui_counter_, gui_prices_, guiPublished, guiLastGap, guiLastCall,
                 guiLastData, guiLastOut, guiCallBit>>
  /\ UNCHANGED <<inqVars, chainVars, codecVars, streamVars, cbVars>>

\* number of prices the price feed delivers
MaxPrices == 3

\* bid and ask of the rows of the price feed, on the 1/256 grid
FeedBids == {99 * Ticks + 255, 100 * Ticks}
FeedAsks == {100 * Ticks + 1, 100 * Ticks + 2}

\* Price(bond, 0.5 * (bid + ask), ask - bid), mid and spread in 512ths
PriceInputs ==
  {[product |-> c, mid |-> bid + ask, spread |-> 2 * (ask - bid)] :
     c \in BookCusips, bid \in FeedBids, ask \in FeedAsks}

\* BondPricingConnector::Subscribe: one price handed to the pricing service,
\* whose listeners are the GUI gate and the algo-streaming service
PricingIngest ==
  /\ nPrices < MaxPrices
  /\ \E data \in PriceInputs, d \in WriteDelays :
       LET r == BondPricingService_OnMessage(ChainSt, data)
       IN  /\ GuiApply(r.gui, data, d)
           /\ prices_' = r.prices
           /\ algo_streams_' = r.astreams
           /\ stream_counter_' = r.scnt
           /\ streams_' = r.streams
           /\ streamHist_' = r.shist
           /\ priceTrace' = r.tr
           /\ cbTrace' = r.cb
  /\ nPrices' = nPrices + 1
  /\ UNCHANGED <<inqVars, chainVars, codecVars>>

InitStream ==
  /\ prices_ = EmptyMap
  /\ algo_streams_ = EmptyMap
  /\ stream_counter_ = 0
  /\ streams_ = EmptyMap
  /\ streamHist_ = EmptyMap
  /\ priceTrace = <<>>
  /\ nPrices = 0
  /\ cbTrace = <<>>

NextPrice == PricingIngest \/ GuiTick

\* a gate whose first interval has already elapsed at construction
InitGUI_TimerExpired ==
  /\ gui_counter_ = 0
  /\ gui_elapsed = Throttle
  /\ gui_prices_ = EmptyMap
  /\ guiPublished = 0
  /\ guiSinceEmit = -1
  /\ guiLastGap = -1
  /\ guiLastCall = "none"
  /\ guiLastData = [product |-> "", mid |-> 0, spread |-> 0]
  /\ guiLastOut = <<>>
  /\ guiCallBit = 0
  /\ guiUptime = 0

\* BondGUIListener::BondGUIListener: counter_(0), start_ = now()
InitGUI ==
  /\ gui_counter_ = 0
  /\ gui_elapsed = 0
  /\ gui_prices_ = EmptyMap
  /\ guiPublished = 0
  /\ guiSinceEmit = -1
  /\ guiLastGap = -1
  /\ guiLastCall = "none"
  /\ guiLastData = [product |-> "", mid |-> 0, spread |-> 0]
  /\ guiLastOut = <<>>
  /\ guiCallBit = 0
  /\ guiUptime = 0

NextGUI == GuiProcessAdd \/ GuiTick

(* Claims about the GUI gate *)

\* C9: the gate forwards at most 100 prices in the process lifetime.
C9_AtMostCap == guiPublished <= 100

\* 100 prices were emitted and a later update, a full interval after the
\* latest emission, was dropped
C9_Witness ==
  /\ guiPublished = 100
  /\ gui_elapsed >= Throttle
  /\ guiLastCall = "dropped"

\* C10: any two emissions are separated by at least the throttle interval.
C10_EmissionsApart == guiPublished >= 2 => guiLastGap >= 300

\* a second emission happened, and an update less than one interval after it
\* was dropped
C10_Witness ==
  /\ guiPublished >= 2
  /\ guiLastGap >= 300
  /\ guiLastCall = "dropped"
  /\ gui_elapsed < Throttle
  /\ guiSinceEmit > gui_elapsed

\* C11: a price dropped by the gate leaves the counter, the timer and the
\* stored prices unchanged and is not handed to the connector; an emission
\* carries exactly the price of the call that triggered it, and nothing is
\* emitted between calls.
C11_DroppedLeavesNoTrace ==
  [][IF guiCallBit' # guiCallBit
     THEN IF GateOpen(gui_counter_, gui_elapsed)
          THEN /\ guiPublished' = guiPublished + 1
               /\ guiLastOut' = <<guiLastData'>>
               /\ gui_prices_'[guiLastData'.product] = guiLastData'
          ELSE /\ gui_counter_' = gui_counter_
               /\ gui_elapsed' = gui_elapsed
               /\ gui_prices_' = gui_prices_
               /\ guiPublished' = guiPublished
               /\ guiLastOut' = guiLastOut
     ELSE /\ guiPublished' = guiPublished
          /\ guiLastOut' = guiLastOut
          /\ gui_prices_' = gui_prices_]_vars

\* the latest price was dropped while a different price is the stored one
C11_Witness ==
  /\ guiLastCall = "dropped"
  /\ guiPublished >= 1
  /\ guiLastOut # <<guiLastData>>
  /\ gui_prices_[guiLastData.product] # guiLastData

----------------------------------------------------------------------------
(* The feeds main runs, one after the other; a behaviour follows one of them *)

\* number of trade-feed events followed here
MaxFlowTrades == 1

InquiryIdle == inquiries_ = EmptyMap /\ inqTrace = <<>>
ChainIdle == nEvents = 0 /\ chainTrace = <<>>
PriceIdle == nPrices = 0 /\ gui_elapsed = 0

NextFlow ==
  \/ (ChainIdle /\ PriceIdle /\ NextInquiry)
  \/ (InquiryIdle /\ PriceIdle /\ (nEvents = 0 \/ books_ # EmptyMap) /\ NextMkt)
  \/ (InquiryIdle /\ PriceIdle /\ books_ = EmptyMap
        /\ ((nEvents < MaxFlowTrades /\ TradeIngest) \/ RecomputeBucket))
  \/ (InquiryIdle /\ ChainIdle /\ NextPrice)

(* Claims about the two pipelines *)

\* number of listener loops open after each mark of the dispatch log
DepthOf(tr) ==
  LET D[i \in 0..Len(tr)] ==
        IF i = 0 THEN 0
        ELSE D[i - 1] + (IF tr[i].k = "begin" THEN 1 ELSE IF tr[i].k = "end" THEN 0 - 1 ELSE 0)
  IN  D

\* the operations logged while handling the latest event, by name
OpsOf(tr) == [i \in 1..Len(tr) |-> tr[i].op]

\* the data logged with the first call of op
DataOf(tr, op) == tr[SetMin({i \in 1..Len(tr) : tr[i].op = op})].data

\* C19: when the ingest of an order book that meets the threshold returns, the
\* algo execution and the execution order are stored, the trade is booked, the
\* position of the instrument on the trade's book has changed by the trade's
\* signed quantity, the risk record has been replaced and handed to the
\* capture sinks, and every listener loop has ended.
C19_ChainCompleteOnReturn ==
  [][(BookUpdate(chainTrace') /\ 128 * CrossedBy(chainTrace'[1].data) >= Ticks) =>
       LET tr == chainTrace'
           id == tr[1].data.product
       IN  /\ OpsOf(tr) = <<"OnMessage", "SendOrder", "ExecuteOrder", "BookTrade", "AddTrade",
                            "AddPosition", "PublishRisk", "UpdateBucketedRisk",
                            "PublishBucket", "PublishPosition", "PublishExecution">>
           /\ books_'[id] = tr[1].data
           /\ algo_execs_'[id] = DataOf(tr, "SendOrder")
           /\ orders_'[id] = DataOf(tr, "SendOrder")
           /\ LET o == DataOf(tr, "SendOrder")
                  t == DataOf(tr, "BookTrade")
                  signed == IF t.side = "BUY" THEN t.quantity ELSE 0 - t.quantity
              IN  /\ t.product = id
                  /\ t.quantity = o.visible + o.hidden
                  /\ t.side = (IF o.side = "OFFER" THEN "BUY" ELSE "SELL")
                  /\ trades_'[t.tradeId] = t
                  /\ Position_GetPosition(positions_'[id], t.book)
                       = Position_GetPosition(positions_[id], t.book) + signed
                  /\ \A b \in LedgerBooks \ {t.book} :
                       Position_GetPosition(positions_'[id], b)
                         = Position_GetPosition(positions_[id], b)
           /\ pv_'[id] = DataOf(tr, "PublishRisk")
           /\ DepthOf(cbTrace')[Len(cbTrace')] = 0
           /\ cbTrace'[Len(cbTrace')] = [k |-> "end", svc |-> "MarketData", l |-> "", ev |-> ""]
    ]_vars

\* a crossed book was ingested after an earlier one: a SELL of 1,000,000 was
\* booked and the position and the risk record of the instrument moved
C19_Witness ==
  /\ BookUpdate(chainTrace)
  /\ Len(chainTrace) = 11
  /\ algo_counter_ = 2
  /\ DataOf(chainTrace, "BookTrade").side = "SELL"
  /\ DataOf(chainTrace, "BookTrade").quantity = 1000000
  /\ positions_[chainTrace[1].data.product]["TRSY2"] = 0 - 1000000
  /\ pv_[chainTrace[1].data.product].quantity # 0

\* the rows handed to the capture sinks while handling an event, in order
CaptureOps == {"PublishRisk", "PublishBucket", "PublishPosition", "PublishExecution"}

RECURSIVE CaptureRows(_, _)
CaptureRows(tr, i) ==
  IF i > Len(tr) THEN <<>>
  ELSE IF tr[i].op \in CaptureOps
       THEN <<tr[i].op>> \o CaptureRows(tr, i + 1)
       ELSE CaptureRows(tr, i + 1)

IndexOf(tr, op) == SetMin({i \in 1..Len(tr) : tr[i].op = op})

\* C36: a threshold-meeting market-data tick reaches the capture sinks in the
\* order risk row of the instrument, row of the instrument's sector bucket
\* (recomputed immediately before it is published, so it reflects the new
\* quantity), position row, and only then the execution-order row.
C36_CaptureOrder ==
  (BookUpdate(chainTrace) /\ 128 * CrossedBy(chainTrace[1].data) >= Ticks) =>
    LET tr == chainTrace
        id == tr[1].data.product
        bucket == DataOf(tr, "PublishBucket")
    IN  /\ CaptureRows(tr, 1)
             = <<"PublishRisk", "PublishBucket", "PublishPosition", "PublishExecution">>
        /\ DataOf(tr, "PublishRisk") = pv_[id]
        /\ IndexOf(tr, "AddPosition") < IndexOf(tr, "PublishRisk")
        /\ IndexOf(tr, "UpdateBucketedRisk") = IndexOf(tr, "PublishRisk") + 1
        /\ IndexOf(tr, "PublishBucket") = IndexOf(tr, "UpdateBucketedRisk") + 1
        /\ bucket.sector = FindBucket(id)
        /\ bucket.rec = pv_buckets_[bucket.sector]
        /\ BucketMatches(bucket.rec, pv_)
        /\ DataOf(tr, "PublishPosition").product = id
        /\ DataOf(tr, "PublishPosition").positions = positions_[id]
        /\ DataOf(tr, "PublishExecution") = orders_[id]

\* the second crossed book of an instrument: the bucket row carries the
\* quantity of the risk row just published, which is not the first trade's
C36_Witness ==
  /\ BookUpdate(chainTrace)
  /\ Len(chainTrace) = 11
  /\ algo_counter_ = 2
  /\ sentOrders[1].product = sentOrders[2].product
  /\ DataOf(chainTrace, "PublishBucket").rec.quantity = DataOf(chainTrace, "PublishRisk").quantity
  /\ DataOf(chainTrace, "PublishRisk").quantity # 0
  /\ DataOf(chainTrace, "PublishRisk").quantity
       # Position_GetAggregatePosition(DataOf(chainTrace, "PublishPosition").positions)

\* C20: every stream of the algo-streaming service has bid = mid - spread/2
\* and offer = mid + spread/2 of the input price, one visible size for both
\* sides and a hidden size of exactly twice the visible size on both sides.
C20_StreamShape ==
  /\ \A i \in 1..Len(priceTrace) :
       priceTrace[i].op = "AlgoPublishPrice" =>
         LET price == priceTrace[i].data.price
             stream == priceTrace[i].data.stream
         IN  /\ 2 * stream.bid.price = 2 * price.mid - price.spread
             /\ 2 * stream.offer.price = 2 * price.mid + price.spread
             /\ stream.bid.side = "BID" /\ stream.offer.side = "OFFER"
             /\ algo_streams_[price.product] = stream
  /\ \A m \in {algo_streams_, streams_, streamHist_} : \A id \in DOMAIN m :
       /\ m[id].bid.visible = m[id].offer.visible
       /\ m[id].bid.hidden = 2 * m[id].bid.visible
       /\ m[id].offer.hidden = 2 * m[id].offer.visible
       /\ 2 * m[id].bid.price = 2 * prices_[id].mid - prices_[id].spread
       /\ 2 * m[id].offer.price = 2 * prices_[id].mid + prices_[id].spread

\* streams of both sizes exist: 2,000,000 visible for one instrument and
\* 1,000,000 visible for the other, captured by the sink
C20_Witness ==
  /\ DOMAIN streamHist_ = {"91282CJL6", "91282CJN2"}
  /\ streamHist_["91282CJL6"].bid.visible = 2000000
  /\ streamHist_["91282CJL6"].bid.hidden = 4000000
  /\ streamHist_["91282CJN2"].offer.visible = 1000000
  /\ streamHist_["91282CJN2"].offer.hidden = 2000000
  /\ streamHist_["91282CJL6"].bid.price = 2 * (99 * Ticks + 255)

\* the latest event went through BondExecutionListener::ProcessUpdate
ViaListener == \E i \in 1..Len(cbTrace) : cbTrace[i].l = "BondExecutionListener"

Executed(tr) == \E i \in 1..Len(tr) : tr[i].op = "ExecuteOrder"

\* C22: the n-th algo execution the execution listener receives (n from 0) is
\* executed on venue list[n mod 3] of (BROKERTEC, ESPEED, CME), and the
\* rotating index stays in {0, 1, 2}.
C22_VenueRoundRobin ==
  /\ exec_counter_ \in {0, 1, 2}
  /\ exec_counter_ = received["BondExecutionListener"] % 3
  /\ ViaListener =>
       /\ Executed(chainTrace)
       /\ DataOf(chainTrace, "ExecuteOrder").market
            = <<"BROKERTEC", "ESPEED", "CME">>[((received["BondExecutionListener"] - 1) % 3) + 1]

\* the fourth algo execution the listener received went to BROKERTEC again
C22_Witness ==
  /\ ViaListener
  /\ received["BondExecutionListener"] = 4
  /\ exec_counter_ = 1
  /\ DataOf(chainTrace, "ExecuteOrder").market = "BROKERTEC"

\* the venue an event handed to a listener carries, if any
EventVenue(ev) == IF "market" \in DOMAIN ev THEN ev.market ELSE "none"

\* C23: ExecuteOrder(order, market) stores the order under its instrument id,
\* replacing an earlier one, and hands every listener one add event that
\* carries the order and the venue chosen for it.
C23_ExecuteDeliversVenue ==
  Executed(chainTrace) =>
    LET call == DataOf(chainTrace, "ExecuteOrder")
        ev == DataOf(chainTrace, "PublishExecution")
    IN  /\ orders_[call.order.product] = call.order
        /\ \A l \in SeqRange(ExecutionListeners) :
             Cardinality({i \in 1..Len(cbTrace) :
                            /\ cbTrace[i].k = "call" /\ cbTrace[i].svc = "Execution"
                            /\ cbTrace[i].l = l /\ cbTrace[i].ev = "Add"}) = 1
        /\ [f \in DOMAIN call.order |-> ev[f]] = call.order
        /\ EventVenue(ev) = call.market

\* C24: the trade built from an execution order has the order's visible plus
\* hidden quantity and the inverted side: OFFER gives BUY, BID gives SELL.
C24_TradeFromExecution ==
  Executed(chainTrace) =>
    LET o == DataOf(chainTrace, "ExecuteOrder").order
        t == DataOf(chainTrace, "BookTrade")
    IN  /\ t.quantity = o.visible + o.hidden
        /\ o.side = "OFFER" => t.side = "BUY"
        /\ o.side = "BID" => t.side = "SELL"
        /\ t.product = o.product
        /\ trades_[t.tradeId] = t

\* a BID execution of 1 visible and 5 hidden was booked as a SELL of 6
C24_Witness ==
  /\ Executed(chainTrace)
  /\ DataOf(chainTrace, "ExecuteOrder").order.side = "BID"
  /\ DataOf(chainTrace, "BookTrade").side = "SELL"
  /\ DataOf(chainTrace, "BookTrade").quantity = 6
  /\ nEvents = 2

\* C25: the n-th execution order the trade-booking listener receives (n from
\* 0) is booked to list[n mod 3] of (TRSY1, TRSY2, TRSY3); its counter stays
\* in {0, 1, 2} and moves with the orders received, not with the venue counter.
C25_BookRoundRobin ==
  /\ booking_counter_ \in {0, 1, 2}
  /\ booking_counter_ = received["BondTradeBookingListener"] % 3
  /\ Executed(chainTrace) =>
       DataOf(chainTrace, "BookTrade").book
         = <<"TRSY1", "TRSY2", "TRSY3">>[((received["BondTradeBookingListener"] - 1) % 3) + 1]

\* the fourth order was booked to TRSY1 again while the venue counter, which
\* saw two of the four orders, stands elsewhere
C25_Witness ==
  /\ Executed(chainTrace)
  /\ received["BondTradeBookingListener"] = 4
  /\ received["BondExecutionListener"] = 2
  /\ booking_counter_ = 1
  /\ exec_counter_ = 2
  /\ DataOf(chainTrace, "BookTrade").book = "TRSY1"

\* C34: trades synthesized from distinct execution orders get distinct trade
\* ids, so no booked trade overwrites another in the trade-booking service's
\* map: after n executions have been booked, n trades are retrievable by id.
C34_TradesRetrievable ==
  Cardinality(DOMAIN trades_) = received["BondTradeBookingListener"]

\* the callbacks of service svc in a dispatch log, in order
CallsBy(cb, svc) ==
  LET idx == {i \in 1..Len(cb) : cb[i].k = "call" /\ cb[i].svc = svc}
      F[i \in 0..Len(cb)] ==
        IF i = 0 THEN <<>>
        ELSE IF i \in idx THEN Append(F[i - 1], <<cb[i].l, cb[i].ev>>) ELSE F[i - 1]
  IN  F[Len(cb)]

Applied(tr) == \E i \in 1..Len(tr) : tr[i].op = "AddTrade"

RiskApplied(tr) == \E i \in 1..Len(tr) : tr[i].op = "AddPosition"

\* the quantities of a position over the three books, added up
AggregateOf(positions) ==
  Position_GetPosition(positions, "TRSY1") + Position_GetPosition(positions, "TRSY2")
    + Position_GetPosition(positions, "TRSY3")

\* C27: AddPosition(position) raises the stored quantity of the instrument by
\* the aggregate quantity of the position passed in, keeps its PV01 per unit
\* (the value of the reference table), leaves the record of every other
\* instrument as it was, and gives each listener one add event with the
\* updated record.
C27_AddPosition ==
  [][(RiskApplied(chainTrace') /\ DataOf(chainTrace', "AddPosition").product \in Cusips) =>
       LET position == DataOf(chainTrace', "AddPosition")
           id == position.product
       IN  /\ DOMAIN position.positions \subseteq LedgerBooks
           /\ pv_'[id].quantity = pv_[id].quantity + AggregateOf(position.positions)
           /\ pv_'[id].pv01 = pv_[id].pv01
           /\ pv_'[id].pv01 = PV_Map[id]
           /\ \A k \in (DOMAIN pv_ \cup DOMAIN pv_') \ {id} :
                k \in DOMAIN pv_ /\ k \in DOMAIN pv_' /\ pv_'[k] = pv_[k]
           /\ CallsBy(cbTrace', "Risk") = <<<<"HistoricalDataListener_Risk", "Add">>>>
           /\ DataOf(chainTrace', "PublishRisk") = pv_'[id]
    ]_vars

\* a position of 7 + 3 over two books was added to a stored quantity of 40
C27_Witness ==
  /\ RiskApplied(chainTrace)
  /\ DataOf(chainTrace, "AddPosition").product = "91282CJL6"
  /\ Position_GetPosition(DataOf(chainTrace, "AddPosition").positions, "TRSY1") = 7
  /\ Position_GetPosition(DataOf(chainTrace, "AddPosition").positions, "TRSY2") = 3
  /\ pv_["91282CJL6"].quantity = 50

\* C35: after any sequence of trades flowing through trade booking, position
\* and risk, between events the risk service's quantity of each instrument
\* equals the instrument's current aggregate position.
C35_RiskQuantityIsPosition ==
  \A c \in DOMAIN pv_ \cap DOMAIN positions_ :
    pv_[c].quantity = Position_GetAggregatePosition(positions_[c])

\* the calls that create the entry of a missing key: the key is stored after
\* the call, and an entry the call created is the zero-valued default, with
\* the quantity of the call added where the call adds one
KeyCreated ==
  /\ aggLog.op = "Position.GetData" =>
       /\ aggLog.id \in DOMAIN positions_ /\ aggLog.ret = {positions_[aggLog.id]}
       /\ ~aggLog.before => AggregateOf(positions_[aggLog.id]) = 0
  /\ aggLog.op = "Risk.GetData" =>
       /\ aggLog.id \in DOMAIN pv_ /\ aggLog.ret = {pv_[aggLog.id]}
       /\ ~aggLog.before => pv_[aggLog.id].pv01 = 0 /\ pv_[aggLog.id].quantity = 0
  /\ aggLog.op = "MarketData.GetData" =>
       /\ aggLog.id \in DOMAIN books_ /\ aggLog.ret = {books_[aggLog.id]}
       /\ ~aggLog.before => books_[aggLog.id].bids = <<>> /\ books_[aggLog.id].offers = <<>>
  /\ aggLog.op = "AddTrade" =>
       /\ aggLog.id \in DOMAIN positions_ /\ aggLog.id \in DOMAIN pv_
       /\ ~aggLog.before =>
            \A t \in aggLog.ret :
              /\ AggregateOf(positions_[aggLog.id])
                   = (IF t.side = "SELL" THEN 0 - t.quantity ELSE t.quantity)
              /\ pv_[aggLog.id].pv01 = 0
  /\ aggLog.op = "AddPosition" =>
       /\ aggLog.id \in DOMAIN pv_
       /\ ~aggLog.before =>
            \A p \in aggLog.ret :
              /\ pv_[aggLog.id].quantity = AggregateOf(p.positions)
              /\ pv_[aggLog.id].pv01 = 0
  /\ aggLog.op = "UpdateBucketedRisk" =>
       /\ aggLog.id \in DOMAIN pv_buckets_
       /\ ~aggLog.before =>
            /\ pv_buckets_[aggLog.id].pv01 = Zero
            /\ pv_buckets_[aggLog.id].quantity = 0
            /\ pv_buckets_[aggLog.id].products = <<>>

IsBid(order) == order.side = "BID"
IsOffer(order) == order.side = "OFFER"

\* C29: a run of 10 lines becomes one order book whose bid stack holds
\* exactly the BID lines of the run and whose offer stack holds exactly the
\* OFFER lines of the run; no order stands in both stacks.
C29_BookFromRun ==
  conn.last = "book" =>
    LET book == chainTrace[1].data
    IN  /\ Len(conn.lastRun) = 10
        /\ nEvents * 10 = conn.rows
        /\ books_[book.product] = book
        /\ book.bids = SelectSeq(conn.lastRun, IsBid)
        /\ book.offers = SelectSeq(conn.lastRun, IsOffer)
        /\ SeqRange(book.bids) \cap SeqRange(book.offers) = {}

\* C30: a row that does not parse is skipped on its own: no service is called
\* for it, and every well-formed row of the file, the rows behind it
\* included, is parsed and handed to the service.
C30_OnlyBadRowSkipped ==
  /\ conn.last = "malformed" => chainTrace = <<>> /\ cbTrace = <<>>
  /\ conn.handed = conn.wellFormed

\* the visible size of the stream published while handling the event of tr
VisibleOf_Stream(tr) == DataOf(tr, "AlgoPublishPrice").stream.bid.visible

Published(tr) == \E i \in 1..Len(tr) : tr[i].op = "AlgoPublishPrice"

\* C21: the visible size of the stream of a PublishPrice call is 1,000,000 or
\* 2,000,000 and differs from the visible size of the stream of the call
\* before it, whatever instruments the two calls are for.
C21_VisibleAlternates ==
  [][(nPrices' = nPrices + 1) =>
       /\ Published(priceTrace')
       /\ VisibleOf_Stream(priceTrace') \in {1000000, 2000000}
       /\ Published(priceTrace) =>
            VisibleOf_Stream(priceTrace') # VisibleOf_Stream(priceTrace)
    ]_vars

\* the third call follows calls for both instruments: its stream is for the
\* instrument of the first call and has the first call's size again
C21_Witness ==
  /\ nPrices = 3
  /\ stream_counter_ = 3
  /\ Published(priceTrace)
  /\ "91282CJN2" \in DOMAIN algo_streams_
  /\ VisibleOf_Stream(priceTrace) = 2000000
  /\ DataOf(priceTrace, "AlgoPublishPrice").price.product = "91282CJL6"
  /\ algo_streams_["91282CJN2"].bid.visible = 1000000

\* the entries of a trace made by operation op
EntriesOf(tr, op) == {i \in 1..Len(tr) : tr[i].op = op}

\* C37: every price ingested by the pricing service produces exactly one algo
\* stream and exactly one streaming-capture publication for that instrument,
\* whether the GUI gate emitted or dropped the price: the gate's decision
\* shows only in the GUI sink, and the algo-streaming counter advances by one
\* per ingested price.
C37_OneStreamPerPrice ==
  [][nPrices' = nPrices + 1 =>
       LET tr == priceTrace'
           id == tr[1].data.product
       IN  /\ tr[1].op = "PricingOnMessage"
           /\ prices_'[id] = tr[1].data
           /\ Cardinality(EntriesOf(tr, "AlgoPublishPrice")) = 1
           /\ Cardinality(EntriesOf(tr, "StreamingPublishPrice")) = 1
           /\ Cardinality(EntriesOf(tr, "PublishStream")) = 1
           /\ DataOf(tr, "AlgoPublishPrice").price = tr[1].data
           /\ DataOf(tr, "AlgoPublishPrice").stream.product = id
           /\ DataOf(tr, "StreamingPublishPrice") = DataOf(tr, "AlgoPublishPrice").stream
           /\ DataOf(tr, "PublishStream") = DataOf(tr, "AlgoPublishPrice").stream
           /\ algo_streams_'[id] = DataOf(tr, "PublishStream")
           /\ streams_'[id] = DataOf(tr, "PublishStream")
           /\ streamHist_'[id] = DataOf(tr, "PublishStream")
           /\ stream_counter_' = stream_counter_ + 1
           /\ guiLastCall' \in {"emitted", "dropped"}
           /\ guiLastCall' = "emitted" =>
                (guiPublished' = guiPublished + 1 /\ gui_prices_'[id] = tr[1].data)
           /\ guiLastCall' = "dropped" =>
                (guiPublished' = guiPublished /\ gui_prices_' = gui_prices_)]_vars

\* the third price was dropped by the gate after an earlier one was emitted,
\* and it has been streamed and captured all the same
C37_Witness ==
  /\ nPrices = 3
  /\ guiPublished = 1
  /\ guiLastCall = "dropped"
  /\ stream_counter_ = 3
  /\ Cardinality(EntriesOf(priceTrace, "PublishStream")) = 1
  /\ streamHist_[priceTrace[1].data.product] = DataOf(priceTrace, "PublishStream")
  /\ priceTrace[1].data.product \in DOMAIN gui_prices_
  /\ gui_prices_[priceTrace[1].data.product] # priceTrace[1].data

\* C38: the gate's timer starts when the listener is constructed: a price
\* arriving less than one throttle interval after construction is dropped
\* although nothing has been emitted yet, and the first emission happens only
\* once a full interval has elapsed since construction.
C38_TimerStartsAtConstruction ==
  [][guiCallBit' # guiCallBit =>
       /\ (guiPublished = 0 /\ guiUptime < Throttle) =>
            /\ guiLastCall' = "dropped"
            /\ guiPublished' = 0
            /\ gui_prices_' = gui_prices_
            /\ gui_counter_' = 0
       /\ (guiPublished = 0 /\ guiPublished' = 1) => guiUptime >= Throttle]_vars

\* a price that arrived 250 ms after construction was dropped, nothing having
\* been emitted before it
C38_Witness ==
  /\ guiLastCall = "dropped"
  /\ guiPublished = 0
  /\ guiUptime = 250
  /\ gui_prices_ = EmptyMap

(* Claims about listener dispatch *)

\* the callbacks a service makes on each listener for one notification
EventsOf(svc) ==
  CASE svc = "Inquiry" -> <<"Add", "Update">>
    [] svc = "Position" -> <<"Update", "Add">>
    [] svc \in {"AlgoExecution", "TradeBooking", "AlgoStreaming"} -> <<"Update">>
    [] OTHER -> <<"Add">>

Begins(tr) == {b \in 1..Len(tr) : tr[b].k = "begin"}

\* the marks that end the loop begun at b
EndsOf(tr, D, b) == {j \in (b + 1)..Len(tr) : tr[j].k = "end" /\ D[j] = D[b] - 1}

\* the call and ret marks of the loop begun at b and ended at e, nested loops excluded
OwnMarks(tr, D, b, e) ==
  {j \in (b + 1)..(e - 1) : tr[j].k \in {"call", "ret"} /\ D[j] = D[b]}

\* the n-th mark of a loop over listeners L with callbacks E on each
ExpectedMark(svc, L, E, n) ==
  [k |-> IF n % 2 = 1 THEN "call" ELSE "ret",
   svc |-> svc,
   l |-> L[((n - 1) \div (2 * Len(E))) + 1],
   ev |-> E[(((n - 1) % (2 * Len(E))) \div 2) + 1]]

\* C17: every notification calls each registered listener's callback exactly
\* once per event, in the order of registration, each callback (with all it
\* triggers) returning before the next one starts and before the loop ends.
C17_RegistrationOrder ==
  LET tr == cbTrace
      D == DepthOf(tr)
  IN  /\ D[Len(tr)] = 0
      /\ \A b \in Begins(tr) :
           /\ EndsOf(tr, D, b) # {}
           /\ LET e == SetMin(EndsOf(tr, D, b))
                  own == OwnMarks(tr, D, b, e)
                  L == Registered(tr[b].svc)
                  E == EventsOf(tr[b].svc)
              IN  /\ Cardinality(own) = 2 * Len(L) * Len(E)
                  /\ \A j \in own :
                       tr[j] = ExpectedMark(tr[b].svc, L, E, Cardinality({x \in own : x <= j}))

\* a price went to the GUI gate and then, through the algo-streaming and the
\* streaming service, to the capture sink, all inside the pricing service's loop
C17_Witness ==
  /\ Len(cbTrace) = 14
  /\ cbTrace[1] = [k |-> "begin", svc |-> "Pricing", l |-> "", ev |-> ""]
  /\ cbTrace[2] = [k |-> "call", svc |-> "Pricing", l |-> "BondGUIListener", ev |-> "Add"]
  /\ cbTrace[4] = [k |-> "call", svc |-> "Pricing", l |-> "BondAlgoStreamingListener",
                    ev |-> "Add"]
  /\ cbTrace[14] = [k |-> "end", svc |-> "Pricing", l |-> "", ev |-> ""]
  /\ guiLastCall = "emitted"
  /\ streamHist_ # EmptyMap

\* the loops of the same service begun while the loop begun at b is open
Reentries(tr, D, b) ==
  {j \in (b + 1)..(SetMin(EndsOf(tr, D, b)) - 1) : tr[j].k = "begin" /\ tr[j].svc = tr[b].svc}

\* C18 as stated: while a service is handling an event (dispatching to its
\* listeners included) the same service's ingest is never invoked again, the
\* inquiry service included.
C18_NoReentry ==
  LET D == DepthOf(cbTrace)
  IN  \A b \in Begins(cbTrace) : Reentries(cbTrace, D, b) = {}

\* C18 amended: no service other than the inquiry service is re-entered; the
\* inquiry service's ingest is re-entered only while it dispatches a RECEIVED
\* inquiry, exactly twice (the QUOTED and the DONE re-ingestion), and a
\* re-ingestion is never re-entered itself.
C18_OnlyQuotingReenters ==
  LET D == DepthOf(cbTrace)
  IN  \A b \in Begins(cbTrace) :
        LET again == Reentries(cbTrace, D, b)
        IN  IF cbTrace[b].svc # "Inquiry" THEN again = {}
            ELSE \/ again = {}
                 \/ /\ D[b] = 1
                    /\ Cardinality(again) = 2
                    /\ \A j \in again : D[j] = 2
                    /\ Cardinality(TraceIdx("OnMessage", "QUOTED")) = 1
                    /\ Cardinality(TraceIdx("OnMessage", "DONE")) = 1

\* a RECEIVED inquiry was ingested and re-ingested twice inside its own dispatch
C18_Witness ==
  /\ RowReceived
  /\ Cardinality(Begins(cbTrace)) = 3
  /\ cbTrace[1].k = "begin" /\ cbTrace[2].l = "BondInquiryListener"
  /\ cbTrace[Len(cbTrace)].k = "end"
  /\ DepthOf(cbTrace)[5] = 2

(* Claims about termination *)

\* the dispatch log of an event that has returned: every listener loop begun
\* has ended
Returned(cb) ==
  cb # <<>> =>
    /\ cb[1].k = "begin"
    /\ cb[Len(cb)].k = "end"
    /\ DepthOf(cb)[Len(cb)] = 0
    /\ \A i \in 1..(Len(cb) - 1) : DepthOf(cb)[i] > 0

\* C40: processing any single inbound event (a price, a trade, an order book,
\* an inquiry in any state) terminates: the listener chain it triggers is
\* finite and every loop returns; the inquiry service's nested re-ingestions
\* stop after the DONE notification, with at most three ingest invocations
\* per arriving inquiry.
C40_EventsTerminate ==
  /\ Returned(cbTrace)
  /\ Len(chainTrace) <= 11
  /\ Len(priceTrace) <= 4
  /\ Len(inqTrace) <= 8
  /\ Cardinality(EntriesOf(inqTrace, "OnMessage")) <= 3
  /\ RowReceived =>
       /\ Cardinality(EntriesOf(inqTrace, "OnMessage")) = 3
       /\ inqTrace[SetMax(EntriesOf(inqTrace, "OnMessage"))].state = "DONE"
       /\ \A i \in EntriesOf(inqTrace, "SendQuote") \cup EntriesOf(inqTrace, "Publish") :
            i < SetMax(EntriesOf(inqTrace, "OnMessage"))
  /\ (Len(inqTrace) > 0 /\ inqTrace[1].op = "OnMessage" /\ inqTrace[1].state # "RECEIVED") =>
       Cardinality(EntriesOf(inqTrace, "OnMessage")) = 1

\* a RECEIVED inquiry for an id already stored as DONE has been processed:
\* three ingests, the last one DONE, and the outermost loop has returned
C40_Witness ==
  /\ RowReceived
  /\ Cardinality(EntriesOf(inqTrace, "OnMessage")) = 3
  /\ Len(inqTrace) = 8
  /\ inqTrace[8].op = "Persist" /\ inqTrace[8].state = "RECEIVED"
  /\ Len(cbTrace) > 0 /\ DepthOf(cbTrace)[Len(cbTrace)] = 0
  /\ Cardinality(DOMAIN inquiries_) = 2

----------------------------------------------------------------------------
Init == InitInquiry /\ InitChain /\ InitGUI /\ InitCodec /\ InitStream

SpecInquiry == Init /\ [][NextInquiry]_vars

SpecMkt == Init /\ [][NextMkt]_vars

SpecTrade == Init /\ [][NextTrade]_vars

SpecDepth == Init /\ [][NextDepth]_vars

SpecGUI == Init /\ [][NextGUI]_vars

SpecCodec == Init /\ [][NextCodec]_vars

SpecPrice == Init /\ [][NextPrice]_vars

SpecFlow == Init /\ [][NextFlow]_vars

SpecExec == Init /\ [][NextExec]_vars

SpecKeys == Init /\ [][NextKeys]_vars

SpecBookFeed == Init /\ [][NextBookFeed]_vars

SpecTradeFeed == Init /\ [][NextTradeFeed]_vars

====
